---- MODULE Spec2Model ----
(***************************************************************************)
(* Model of the OSM batching service (src/src/lib.rs, src/src/utils.rs,   *)
(* src/src/main.rs): the availability oracle, the file-lock coordinator,   *)
(* the preparation pipeline, the batch builder and the FetchImportBatch    *)
(* handler, over one import directory.                                     *)
(*                                                                         *)
(* Text is modelled as TLA+ strings built with \o, exactly as the code     *)
(* builds them with push_str.  An attribute value or a text node is a      *)
(* sequence of runs: each XML special character (&, ", <, >) is a run of   *)
(* its own, every other run is a string free of special characters.       *)
(***************************************************************************)
EXTENDS Integers, Sequences, FiniteSets, TLC

(***************************************************************************)
(* Bounds of the model.                                                    *)
(***************************************************************************)
\* elements beyond a whole number of batches in the long source documents
ExtraElems == 1
\* request slots (concurrent FetchImportBatch calls)
MaxReqs == 2
\* requests issued in one behaviour
MaxRequests == 2
\* preparation task slots (preparations running at once)
MaxPreps == 2
\* preparation tasks spawned in one behaviour
MaxSpawns == 2
\* largest batch number a request asks for
MaxBatchNumber == 0
\* fetch_import_batch calls made in one behaviour
MaxFetches == 2
\* reader events in a generated event sequence
MaxEvents == 4

(***************************************************************************)
(* Program constants.                                                      *)
(***************************************************************************)
FullBatchSize == 500
DeltaBatchSize == 1000

\* the element kinds, in the order the code iterates them
Kinds == <<"node", "way", "relation">>
KindSet == {"node", "way", "relation"}
Containers == {"create", "modify", "delete"}
RootTags == {"osm", "osmChange"}
XmlDecl == "<?xml version='1.0' encoding='UTF-8'?>\n"
ProducerToken == "Chaldal osm-import-rust; "

\* batch_osm_xml's elements_per_batch, as process_full_import and
\* process_delta_import pass it
ElementsPerBatch(import_type) ==
  IF import_type = "full" THEN FullBatchSize ELSE DeltaBatchSize

(***************************************************************************)
(* Text helpers.                                                           *)
(***************************************************************************)
RECURSIVE Concat(_)
\* the runs of a value joined into one string
Concat(runs) ==
  IF runs = <<>> THEN "" ELSE Head(runs) \o Concat(Tail(runs))

RECURSIVE Replace(_, _, _)
\* str::replace on a sequence of runs: every run equal to from becomes to
Replace(runs, from, to) ==
  IF runs = <<>> THEN <<>>
  ELSE (IF Head(runs) = from THEN <<to>> ELSE <<Head(runs)>>)
         \o Replace(Tail(runs), from, to)

\* the four chained replace calls on an attribute value.  A run produced by
\* an earlier replace ("&amp;") is not one of the later patterns.
EscapeAttr(value) ==
  Replace(Replace(Replace(Replace(value, "&", "&amp;"),
                          "\"", "&quot;"), "<", "&lt;"), ">", "&gt;")

\* the three chained replace calls on text content
EscapeText(text) ==
  Replace(Replace(Replace(text, "&", "&amp;"), "<", "&lt;"), ">", "&gt;")

RECURSIVE AttrText(_)
\* the ` key="value"` pieces pushed for the attributes of a tag
AttrText(attrs) ==
  IF attrs = <<>> THEN ""
  ELSE " " \o Head(attrs)[1] \o "=\"" \o Concat(EscapeAttr(Head(attrs)[2]))
           \o "\"" \o AttrText(Tail(attrs))

(***************************************************************************)
(* Source documents, as the event streams quick_xml reads from them.       *)
(***************************************************************************)
Ev(type, name, attrs, text) ==
  [type |-> type, name |-> name, attrs |-> attrs, text |-> text]
StartEv(name, attrs) == Ev("Start", name, attrs, <<>>)
EndEv(name) == Ev("End", name, <<>>, <<>>)
EmptyEv(name, attrs) == Ev("Empty", name, attrs, <<>>)
TextEv(text) == Ev("Text", "", <<>>, text)
CDataEv(text) == Ev("CData", "", <<>>, text)
DeclEv == Ev("Decl", "", <<>>, <<>>)

IdAttr(i) == <<"id", <<ToString(i)>>>>

\* the events of the i-th top-level element of a generated document
ElementEvents(template, i) ==
  CASE template = "node_empty" ->
         <<EmptyEv("node", <<IdAttr(i)>>)>>
    [] template = "node_full" ->
         <<StartEv("node", <<IdAttr(i)>>),
           EmptyEv("tag", <<<<"k", <<"name">>>>, <<"v", <<"a">>>>>>),
           EndEv("node")>>
    [] template = "way" ->
         <<StartEv("way", <<IdAttr(i)>>),
           EmptyEv("nd", <<<<"ref", <<"1">>>>>>),
           StartEv("tag", <<<<"k", <<"note">>>>>>),
           TextEv(<<"t">>),
           EndEv("tag"),
           EndEv("way")>>
    [] template = "relation" ->
         <<StartEv("relation", <<IdAttr(i)>>),
           EmptyEv("member", <<<<"type", <<"way">>>>, <<"ref", <<"2">>>>>>),
           EndEv("relation")>>
    [] template = "modify_node" ->
         <<StartEv("modify", <<>>),
           EmptyEv("node", <<IdAttr(i)>>),
           EndEv("modify")>>
    [] template = "delete_way" ->
         <<StartEv("delete", <<>>),
           StartEv("way", <<IdAttr(i)>>),
           EmptyEv("nd", <<<<"ref", <<"1">>>>>>),
           EndEv("way"),
           EndEv("delete")>>
    [] template = "bare_relation" ->
         <<EmptyEv("relation", <<IdAttr(i)>>)>>
    \* <node id="i" name="a&amp;b"><tag k="x>y">c&lt;d</tag></node>: the
    \* reader hands over attribute values and text as they stand in the
    \* source, an entity reference being the run "&" and the run of its name
    [] template = "node_entity" ->
         <<StartEv("node", <<IdAttr(i), <<"name", <<"a", "&", "amp;", "b">>>>>>),
           StartEv("tag", <<<<"k", <<"x", ">", "y">>>>>>),
           TextEv(<<"c", "&", "lt;", "d">>),
           EndEv("tag"),
           EndEv("node")>>
    \* <way id="i"><node id="0"/><nd ref="1"/></way>
    [] template = "way_nested" ->
         <<StartEv("way", <<IdAttr(i)>>),
           EmptyEv("node", <<IdAttr(0)>>),
           EmptyEv("nd", <<<<"ref", <<"1">>>>>>),
           EndEv("way")>>
    \* <relation id="i"><way id="0"><nd ref="1"/></way></relation>
    [] template = "relation_nested" ->
         <<StartEv("relation", <<IdAttr(i)>>),
           StartEv("way", <<IdAttr(0)>>),
           EmptyEv("nd", <<<<"ref", <<"1">>>>>>),
           EndEv("way"),
           EndEv("relation")>>
    \* <node id="i"><delete></delete></node>
    [] template = "node_delete_child" ->
         <<StartEv("node", <<IdAttr(i)>>),
           StartEv("delete", <<>>),
           EndEv("delete"),
           EndEv("node")>>
    \* the tags of a change wrapper that holds several elements, and the
    \* elements inside it
    [] template = "open_create" -> <<StartEv("create", <<>>)>>
    [] template = "close_create" -> <<EndEv("create")>>
    [] template = "create_node" -> <<EmptyEv("node", <<IdAttr(i)>>)>>
    [] template = "create_way" ->
         <<StartEv("way", <<IdAttr(i)>>),
           EmptyEv("nd", <<<<"ref", <<"1">>>>>>),
           EndEv("way")>>
    \* a place where the reader returns Err
    [] template = "broken" -> <<Ev("Err", "", <<>>, <<>>)>>
    \* <node id="i"><tag><![CDATA[x]]></tag></node>
    [] template = "node_cdata" ->
         <<StartEv("node", <<IdAttr(i)>>),
           StartEv("tag", <<>>),
           CDataEv(<<"x">>),
           EndEv("tag"),
           EndEv("node")>>
    \* single events, for the generated event sequences
    [] template = "start_node" -> <<StartEv("node", <<IdAttr(i)>>)>>
    [] template = "end_node" -> <<EndEv("node")>>
    [] template = "start_tag" -> <<StartEv("tag", <<>>)>>
    [] template = "end_tag" -> <<EndEv("tag")>>
    [] template = "text" -> <<TextEv(<<"t">>)>>

TemplateKind(template) ==
  CASE template \in {"node_empty", "node_full", "modify_node", "node_entity",
                      "node_delete_child", "create_node"} -> "node"
    [] template \in {"way", "delete_way", "way_nested", "create_way"} -> "way"
    [] template \in {"relation", "bare_relation", "relation_nested"} -> "relation"
    [] OTHER -> ""

TemplateContainer(template) ==
  CASE template = "modify_node" -> "modify"
    [] template = "delete_way" -> "delete"
    [] template \in {"create_node", "create_way"} -> "create"
    [] OTHER -> ""

\* the template of the i-th element: the pattern repeats
TemplateAt(pattern, i) == pattern[((i - 1) % Len(pattern)) + 1]

RECURSIVE ElementRange(_, _, _)
\* the events of elements lo..hi (split in halves, so that the recursion
\* depth is logarithmic in the number of elements)
ElementRange(pattern, lo, hi) ==
  IF lo > hi THEN <<>>
  ELSE IF lo = hi THEN ElementEvents(TemplateAt(pattern, lo), lo)
  ELSE LET mid == (lo + hi) \div 2
       IN ElementRange(pattern, lo, mid) \o ElementRange(pattern, mid + 1, hi)

\* a generated document: declaration, root, n elements, closing root
MakeDoc(import_type, root, rootAttrs, pattern, n) ==
  [import_type |-> import_type,
   pattern     |-> pattern,
   n           |-> n,
   events      |-> <<DeclEv, StartEv(root, rootAttrs)>>
                     \o ElementRange(pattern, 1, n)
                     \o <<EndEv(root)>>]

GenAttr == <<"generator", <<"g">>>>
VersionAttr == <<"version", <<"0.6">>>>

\* a document to generate: import type, root tag and attributes, the
\* pattern of its elements and their number
Doc(import_type, root, rootAttrs, pattern, n) ==
  [import_type |-> import_type, root |-> root, rootAttrs |-> rootAttrs,
   pattern |-> pattern, n |-> n]

\* the documents of the model.  1-2 are the short documents of the
\* concurrent specification, 3-6 the long documents of the batch builder
\* specification (more elements than one batch holds).
Documents ==
  <<Doc("full", "osm", <<GenAttr>>, <<"node_empty", "way">>, 2),
    Doc("delta", "osmChange", <<>>, <<"modify_node", "delete_way">>, 2),
    Doc("full", "osm", <<VersionAttr, GenAttr>>, <<"node_empty">>,
        2 * FullBatchSize + ExtraElems),
    Doc("full", "osm", <<GenAttr>>, <<"node_full", "way", "relation">>,
        3 * FullBatchSize + 1 + ExtraElems),
    Doc("delta", "osmChange", <<VersionAttr>>,
        <<"modify_node", "delete_way">>,
        2 * DeltaBatchSize + ExtraElems),
    Doc("delta", "osmChange", <<GenAttr>>,
        <<"bare_relation", "modify_node">>, 2 + ExtraElems),
    \* entity references in attribute values and text, and in the root
    Doc("full", "osm", <<GenAttr>>, <<"node_entity", "way">>, 2),
    Doc("full", "osm", <<VersionAttr, <<"generator", <<"g", "&", "amp;", "h">>>>>>,
        <<"node_empty">>, 1),
    \* node/way/relation tags inside a top-level element
    Doc("full", "osm", <<GenAttr>>, <<"way_nested", "relation_nested">>, 2),
    \* create and delete tags in a full import
    Doc("full", "osm", <<GenAttr>>,
        <<"open_create", "node_empty", "close_create", "node_delete_child">>, 4),
    \* a change wrapper around two elements, an element after it
    Doc("delta", "osmChange", <<GenAttr>>,
        <<"open_create", "create_node", "create_way", "close_create",
          "bare_relation">>, 5),
    \* no osm or osmChange start tag
    Doc("full", "gpx", <<GenAttr>>, <<"node_empty">>, 1),
    \* a parse error after two elements
    Doc("delta", "osmChange", <<>>,
        <<"modify_node", "delete_way", "broken", "modify_node">>, 4),
    \* a parse error before the root: the declaration, then Err
    Doc("full", "", <<>>, <<"broken">>, 1),
    \* a CDATA section inside an element
    Doc("full", "osm", <<GenAttr>>, <<"node_cdata">>, 1)>>

\* the events the generated sequences are made of: the start and end tags
\* of a kind, of a change wrapper and of another tag, a self-closing kind
\* tag, and text
EventAlphabet ==
  <<"start_node", "open_create", "start_tag", "end_node", "close_create",
    "end_tag", "node_empty", "text">>

\* the i-th sequence of MaxEvents events, i counted from 0 in base
\* Len(EventAlphabet)
EventPattern(i) ==
  [j \in 1..MaxEvents |->
     EventAlphabet[((i \div (Len(EventAlphabet) ^ (j - 1))) % Len(EventAlphabet)) + 1]]

\* what the reader may hand to the loop, well-nested or not: every sequence
\* of MaxEvents events inside the root of a delta
EventDocuments ==
  [i \in 1..(Len(EventAlphabet) ^ MaxEvents) |->
     Doc("delta", "osmChange", <<>>, EventPattern(i - 1), MaxEvents)]

AllDocuments == Documents \o EventDocuments

\* the events of document d
Generate(d) ==
  IF d.root = ""
  THEN [import_type |-> d.import_type, pattern |-> d.pattern, n |-> d.n,
        events |-> <<DeclEv>> \o ElementRange(d.pattern, 1, d.n)]
  ELSE MakeDoc(d.import_type, d.root, d.rootAttrs, d.pattern, d.n)

Scenarios == [sc \in DOMAIN AllDocuments |-> Generate(AllDocuments[sc])]

ShortScenarios == {1, 2}
LongScenarios == {3, 4, 5, 6}

ScenarioIds == ShortScenarios \cup LongScenarios
\* the documents of the parser's corner cases
EdgeScenarios == 7..14
\* the CDATA document and the generated event sequences
EventScenarios == 15..Len(AllDocuments)
TypeOf(sc) == AllDocuments[sc].import_type
EventsOf(sc) == Scenarios[sc].events

\* get_filename_base: <scope>.osm or <scope>.osc (the scope is the date of
\* the one full import, or the underscore form of the one delta import)
FilenameBase(sc) == IF TypeOf(sc) = "full" THEN "010123.osm" ELSE "000_001_002.osc"

\* the identifiers of the one full and the one delta import, a character a
\* run: the strings held by FullDate and DeltaAbc
FullArg == <<"0", "1", "0", "1", "2", "3">>
DeltaArg == <<"0", "0", "0", "/", "0", "0", "1", "/", "0", "0", "2">>

\* ImportOptions::get_import_scope: date.as_str(), abc.as_underscore()
ImportScope(sc) ==
  IF TypeOf(sc) = "full" THEN FullArg ELSE Replace(DeltaArg, "/", "_")

\* the url download_osm_pbf / download_osc_gz format from the date or abc
\* argument that process_osm_import passes down: &import_scope
DownloadUrl(sc) ==
  IF TypeOf(sc) = "full"
  THEN "https://download.geofabrik.de/asia/bangladesh-"
         \o Concat(ImportScope(sc)) \o ".osm.pbf"
  ELSE "https://download.geofabrik.de/asia/bangladesh-updates/"
         \o Concat(ImportScope(sc)) \o ".osc.gz"

(***************************************************************************)
(* The filesystem below import_dir: the set of existing directories and    *)
(* the existing files, each with its data and the tasks that hold it open  *)
(* for writing (a handle follows the file through a rename).               *)
(***************************************************************************)
\* format!("{:06}", n)
Pad6(n) ==
  (IF n < 10 THEN "00000" ELSE IF n < 100 THEN "0000" ELSE IF n < 1000 THEN "000"
   ELSE IF n < 10000 THEN "00" ELSE IF n < 100000 THEN "0" ELSE "") \o ToString(n)

\* the path strings of ImportOptions for the import of document sc
get_import_dir(sc) == "./data/" \o TypeOf(sc) \o "/" \o Concat(ImportScope(sc))
get_lock_file(sc) == get_import_dir(sc) \o "/lock"
get_batch_file(sc, element_type, batch_number) ==
  get_import_dir(sc) \o "/batches/" \o element_type \o "/" \o FilenameBase(sc)
    \o ".batch_" \o Pad6(batch_number) \o ".xml"
get_batches_complete_file(sc, element_type) ==
  get_import_dir(sc) \o "/batches/" \o element_type \o "/" \o FilenameBase(sc)
    \o ".batches_complete"

\* the path strings batch_osm_xml and write_batch format from the import_dir
\* and the input_file that process_osm_import hands down: input_filename is
\* the file name of <import_dir>/<scope>.osm or .osc
batch_path(sc, element_type, batch_number) ==
  get_import_dir(sc) \o "/batches/" \o element_type \o "/"
    \o (FilenameBase(sc) \o ".batch_" \o Pad6(batch_number) \o ".xml")
completion_file(sc, element_type) ==
  get_import_dir(sc) \o "/batches/" \o element_type \o "/" \o FilenameBase(sc)
    \o ".batches_complete"

Path(t, k, n) == [t |-> t, k |-> k, n |-> n]
LockFile == Path("lock", "", 0)
ArchiveFile == Path("archive", "", 0)
XmlFile == Path("xml", "", 0)
XmlTempFile == Path("xml.temp", "", 0)
BatchFile(k, n) == Path("batch", k, n)
TempFile(k, n) == Path("batch.temp", k, n)
CompleteFile(k) == Path("complete", k, 0)

File(data, writers) == [data |-> data, writers |-> writers]

\* the file map with path f removed
Unlink(fmap, f) == [g \in (DOMAIN fmap) \ {f} |-> fmap[g]]
\* the file map with path f holding file v
Put(fmap, f, v) == [g \in (DOMAIN fmap) \cup {f} |-> IF g = f THEN v ELSE fmap[g]]
\* open(O_CREAT | O_TRUNC) by task w: the file is emptied, w holds a handle
OpenTrunc(fmap, f, w) ==
  Put(fmap, f, File(<<>>, (IF f \in DOMAIN fmap THEN fmap[f].writers ELSE {}) \cup {w}))
\* write_all and close through w's handle: the data lands in whichever path
\* now names the file w opened; nowhere if that file was unlinked
WriteHandle(fmap, w, data) ==
  [g \in DOMAIN fmap |->
     IF w \in fmap[g].writers THEN File(data, fmap[g].writers \ {w}) ELSE fmap[g]]
\* rename(2): the destination is replaced atomically
Rename(fmap, from, to) == Unlink(Put(fmap, to, fmap[from]), from)

\* the files of directory batches/<k>
FilesIn(fmap, k) == {f \in DOMAIN fmap : f.t \in {"batch", "batch.temp", "complete"} /\ f.k = k}

(***************************************************************************)
(* write_batch's content and the completion message.                       *)
(***************************************************************************)
\* the root line: the attributes come out of a HashMap, so the line is kept
\* as the tag with the map from key to escaped value, in no order
RootLine(root_info) ==
  [tag |-> root_info.tag,
   attributes |-> [key \in DOMAIN root_info.attributes |->
                     Concat(EscapeAttr(root_info.attributes[key]))]]

BatchContent(root_info, elements) ==
  <<XmlDecl, RootLine(root_info)>>
    \o [i \in 1..Len(elements) |-> elements[i] \o "\n"]
    \o <<"</" \o root_info.tag \o ">\n">>

CompletionMessage(count, input_filename) ==
  "wrote " \o ToString(count) \o " batches from " \o input_filename \o "\n"

(***************************************************************************)
(* parse_root_element.                                                     *)
(***************************************************************************)
RECURSIVE FindRoot(_, _)
\* index of the first Start event named osm or osmChange; 0 when the reader
\* reaches Eof first, -1 when it reports an error first
FindRoot(events, i) ==
  IF i > Len(events) THEN 0
  ELSE IF events[i].type = "Err" THEN -1
  ELSE IF events[i].type = "Start" /\ events[i].name \in RootTags THEN i
  ELSE FindRoot(events, i + 1)

AttrKeys(attrs) == {attrs[i][1] : i \in 1..Len(attrs)}
\* HashMap::insert in attribute order: the last value of a key wins
AttrValue(attrs, key) ==
  attrs[CHOOSE i \in 1..Len(attrs) :
          attrs[i][1] = key /\ \A j \in (i + 1)..Len(attrs) : attrs[j][1] # key][2]

ParseRootElement(events) ==
  LET i == FindRoot(events, 1) IN
  IF i <= 0 THEN [ok |-> FALSE, tag |-> "", attributes |-> <<>>]
  ELSE LET attrs == events[i].attrs
           current_generator ==
             IF "generator" \in AttrKeys(attrs) THEN AttrValue(attrs, "generator") ELSE <<>>
       IN [ok |-> TRUE,
           tag |-> events[i].name,
           attributes |->
             [key \in AttrKeys(attrs) \cup {"generator"} |->
                IF key = "generator" THEN <<ProducerToken>> \o current_generator
                ELSE AttrValue(attrs, key)]]

(***************************************************************************)
(* The element extraction loop of batch_osm_xml, one reader event at a     *)
(* time.  t is the task's record; its parser fields carry the code's names.*)
(***************************************************************************)
\* the container tag pushed before / after a fragment of a delta import
WrapOpen(t, import_type) ==
  IF import_type = "delta" /\ t.delta_container # ""
  THEN "<" \o t.delta_container \o ">\n" ELSE ""
WrapClose(t, import_type) ==
  IF import_type = "delta" /\ t.delta_container # ""
  THEN "\n</" \o t.delta_container \o ">" ELSE ""

\* mutant: the element is inserted at the front of the buffer
PushElement_Front(t, how) ==
  [t EXCEPT !.current_batches[t.element_type] = <<t.current_element>> \o @,
            !.total_elements_processed = @ + 1,
            !.pushed = how]

\* current_batches[element_type].push(current_element.clone())
PushElement(t, how) ==
  [t EXCEPT !.current_batches[t.element_type] = Append(@, t.current_element),
            !.total_elements_processed = @ + 1,
            !.pushed = how]

\* mutant: the start tag of a kind does not set the depth
OnStart_KeepDepth(t, e, import_type) ==
  IF e.name \in KindSet THEN
    [t EXCEPT !.element_type = e.name,
              !.in_element = TRUE,
              !.current_element =
                 WrapOpen(t, import_type) \o "<" \o e.name \o AttrText(e.attrs) \o ">"]
  ELSE IF e.name \in Containers /\ import_type = "delta" THEN
    [t EXCEPT !.delta_container = e.name]
  ELSE IF t.in_element THEN
    [t EXCEPT !.element_depth = @ + 1,
              !.current_element = @ \o "<" \o e.name \o AttrText(e.attrs) \o ">"]
  ELSE t

\* Event::Start
OnStart(t, e, import_type) ==
  IF e.name \in KindSet THEN
    [t EXCEPT !.element_type = e.name,
              !.in_element = TRUE,
              !.element_depth = 1,
              !.current_element =
                 WrapOpen(t, import_type) \o "<" \o e.name \o AttrText(e.attrs) \o ">"]
  ELSE IF e.name \in Containers /\ import_type = "delta" THEN
    [t EXCEPT !.delta_container = e.name]
  ELSE IF t.in_element THEN
    [t EXCEPT !.element_depth = @ + 1,
              !.current_element = @ \o "<" \o e.name \o AttrText(e.attrs) \o ">"]
  ELSE t

\* mutant: the end tag of a change wrapper does not clear the container
OnEnd_KeepContainer(t, e, import_type) ==
  IF e.name \in KindSet THEN
    IF t.in_element /\ t.element_depth = 1 THEN
      PushElement([t EXCEPT !.current_element =
                     @ \o "</" \o e.name \o ">" \o WrapClose(t, import_type)], "end")
    ELSE IF t.in_element THEN
      [t EXCEPT !.current_element = @ \o "</" \o e.name \o ">",
                !.element_depth = @ - 1]
    ELSE t
  ELSE IF e.name \in Containers /\ import_type = "delta" THEN t
  ELSE IF t.in_element /\ t.element_depth > 1 THEN
    [t EXCEPT !.current_element = @ \o "</" \o e.name \o ">",
              !.element_depth = @ - 1]
  ELSE t

\* Event::End, up to the batch-full check
OnEnd(t, e, import_type) ==
  IF e.name \in KindSet THEN
    IF t.in_element /\ t.element_depth = 1 THEN
      PushElement([t EXCEPT !.current_element =
                     @ \o "</" \o e.name \o ">" \o WrapClose(t, import_type)], "end")
    ELSE IF t.in_element THEN
      [t EXCEPT !.current_element = @ \o "</" \o e.name \o ">",
                !.element_depth = @ - 1]
    ELSE t
  ELSE IF e.name \in Containers /\ import_type = "delta" THEN
    [t EXCEPT !.delta_container = ""]
  ELSE IF t.in_element /\ t.element_depth > 1 THEN
    [t EXCEPT !.current_element = @ \o "</" \o e.name \o ">",
              !.element_depth = @ - 1]
  ELSE t

\* mutant: a self-closing kind tag enters the element like a start tag
OnEmpty_Enter(t, e, import_type) ==
  IF e.name \in KindSet THEN
    LET t1 == [t EXCEPT !.element_type = e.name, !.in_element = TRUE,
                        !.element_depth = 1] IN
    PushElement([t1 EXCEPT !.current_element =
                   WrapOpen(t, import_type) \o "<" \o e.name \o AttrText(e.attrs)
                     \o "/>" \o WrapClose(t, import_type)], "empty")
  ELSE IF t.in_element THEN
    [t EXCEPT !.current_element = @ \o "<" \o e.name \o AttrText(e.attrs) \o "/>"]
  ELSE t

\* Event::Empty, up to the batch-full check
OnEmpty(t, e, import_type) ==
  IF e.name \in KindSet THEN
    LET t1 == [t EXCEPT !.element_type = e.name] IN
    PushElement([t1 EXCEPT !.current_element =
                   WrapOpen(t, import_type) \o "<" \o e.name \o AttrText(e.attrs)
                     \o "/>" \o WrapClose(t, import_type)], "empty")
  ELSE IF t.in_element THEN
    [t EXCEPT !.current_element = @ \o "<" \o e.name \o AttrText(e.attrs) \o "/>"]
  ELSE t

\* Event::Text and Event::CData
OnText(t, e) ==
  IF t.in_element
  THEN [t EXCEPT !.current_element = @ \o Concat(EscapeText(e.text))] ELSE t
OnCData(t, e) ==
  IF t.in_element
  THEN [t EXCEPT !.current_element = @ \o "<![CDATA[" \o Concat(e.text) \o "]]>"] ELSE t

\* one arm of the match on the reader's event (Eof and Err are handled by
\* the action: they leave the loop)
OnEvent(t, e, import_type) ==
  CASE e.type = "Start" -> OnStart(t, e, import_type)
    [] e.type = "End"   -> OnEnd(t, e, import_type)
    [] e.type = "Empty" -> OnEmpty(t, e, import_type)
    [] e.type = "Text"  -> OnText(t, e)
    [] e.type = "CData" -> OnCData(t, e)
    [] OTHER -> t

\* mutant: the comparison is strict, a batch is written one element late
BatchIsFull_Strict(t, import_type) ==
  Len(t.current_batches[t.element_type]) > ElementsPerBatch(import_type)

\* `current_batches[&element_type].len() >= elements_per_batch`
BatchIsFull(t, import_type) ==
  Len(t.current_batches[t.element_type]) >= ElementsPerBatch(import_type)

\* mutant: the batch is not counted, the next one takes the same number
AfterFlush_NoCount(t) ==
  [t EXCEPT !.current_batches[t.element_type] = <<>>]

\* mutant: the batch is counted but the buffer is not cleared
AfterFlush_KeepBuffer(t) ==
  [t EXCEPT !.batch_counts[t.element_type] = @ + 1]

\* after write_batch returned in the loop: count the batch, clear the buffer
AfterFlush(t) ==
  [t EXCEPT !.batch_counts[t.element_type] = @ + 1,
            !.current_batches[t.element_type] = <<>>]

\* the end of the arm: a pushing End tag leaves the element
EndOfArm(t) ==
  IF t.pushed = "end"
  THEN [t EXCEPT !.in_element = FALSE, !.element_depth = 0, !.pushed = "none"]
  ELSE [t EXCEPT !.pushed = "none"]

(***************************************************************************)
(* State.                                                                  *)
(***************************************************************************)
VARIABLES
  scenario,   \* the import being served: its type and its source document
  dirs,       \* existing directories: "import_dir", "batches", the kinds
  files,      \* existing files: path -> [data, writers]
  preps,      \* the spawned preparation tasks (process_osm_import)
  reqs,       \* the request tasks (check_batch_file_status, maybe_start)
  issued,     \* requests issued so far
  spawned,    \* preparation tasks spawned so far
  completed,  \* history: the kinds whose completion marker has existed
  call,       \* the fetch_import_batch call in flight, or the last one answered
  fetches     \* fetch_import_batch calls made so far

vars == <<scenario, dirs, files, preps, reqs, issued, spawned, completed,
          call, fetches>>

\* chunks of the remote payload, as the byte stream delivers them
NumChunks == 2
ChunkBytes == 600

PrepIds == 1..MaxPreps
ReqIds == 1..MaxReqs

NoRoot == [ok |-> FALSE, tag |-> "", attributes |-> <<>>]

\* a task record; the parser fields are batch_osm_xml's locals
Task(pc) ==
  [pc |-> pc, result |-> "none", url |-> "",
   chk |-> 0, rm_dir |-> "", missing |-> "", chunk |-> 0, pos |-> 0, wb_kind |-> "",
   root_info |-> NoRoot,
   batch_counts |-> [k \in KindSet |-> 0],
   current_batches |-> [k \in KindSet |-> <<>>],
   current_element |-> "", element_type |-> "",
   in_element |-> FALSE, element_depth |-> 0, delta_container |-> "",
   total_elements_processed |-> 0, pushed |-> "none"]

Request(pc, k, n) ==
  [pc |-> pc, element_type |-> k, batch_number |-> n,
   exists |-> FALSE, read |-> "none", status |-> "none", content |-> <<>>]

\* a fetch_import_batch call: its arguments, what its probes found, its
\* response, whether it spawned a task, and what held when it was made
NoResponse == [tag |-> "none", body |-> ""]
FetchCall(pc, import_type, k, n) ==
  [pc |-> pc, import_type |-> import_type, element_type |-> k, batch_number |-> n,
   exists |-> "none", read |-> "none", content |-> <<>>,
   complete |-> "none", lock |-> "none",
   response |-> NoResponse, spawn |-> FALSE,
   since_ok |-> FALSE, since_stale |-> FALSE]
NoCall == FetchCall("idle", [tag |-> "None", arg |-> <<>>], "", 0)

Running(p) == preps[p].pc \notin {"idle", "done"}

\* process_osm_import has evaluated Ok(()) as its result
ReturnedOk(p) == preps[p].pc \in {"unlock", "done"} /\ preps[p].result = "Ok"

\* mutant: the dispatched import's error is returned with `?`, before the
\* lock file is removed
Failed_NoUnlock(t) == [Task("done") EXCEPT !.result = "Err"]

\* the task's `?` / bail!: process_full_import or process_delta_import
\* returns the error and process_osm_import goes on to remove the lock
Failed(t) == [Task("unlock") EXCEPT !.result = "Err"]
\* batch_osm_xml returned Ok(())
Succeeded(t) == [t EXCEPT !.pc = "unlock", !.result = "Ok"]

Init ==
  /\ scenario \in ShortScenarios
  /\ dirs = {}
  /\ files = <<>>
  /\ preps = [p \in PrepIds |-> Task("idle")]
  /\ reqs = [r \in ReqIds |-> Request("idle", "", 0)]
  /\ issued = 0
  /\ spawned = 0
  /\ completed = {}
  /\ call = NoCall
  /\ fetches = 0

\* the kinds whose completion file exists
Markers(fmap) == {k \in KindSet : CompleteFile(k) \in DOMAIN fmap}

\* the frame of every step: the history of markers, the fixed import
Frame ==
  /\ completed' = completed \cup Markers(files')
  /\ UNCHANGED <<scenario, call, fetches>>

\* the frame of a step of a spawned task: it leaves the calls alone
TaskFrame ==
  /\ UNCHANGED <<reqs, issued, spawned>>
  /\ Frame

(***************************************************************************)
(* process_osm_import: directory, lock, dispatch, unlock.                  *)
(***************************************************************************)
\* fs::create_dir_all(&import_dir).await?: on an error the function returns
\* it at once
PrepMkdir(p) ==
  /\ preps[p].pc = "mkdir"
  /\ \/ /\ dirs' = dirs \cup {"import_dir"}
        /\ preps' = [preps EXCEPT ![p].pc = "lock"]
     \/ /\ dirs' = dirs
        /\ preps' = [preps EXCEPT ![p] = [Task("done") EXCEPT !.result = "Err"]]
  /\ UNCHANGED files
  /\ TaskFrame

\* fs::write(&lock_file_path, "locked").await?: the lock's data is never
\* read, so the creation and the write are one step; on an error, with the
\* file created or not, the function returns it at once
PrepLock(p) ==
  /\ preps[p].pc = "lock"
  /\ \/ /\ files' = Put(files, LockFile, File("locked", {}))
        /\ preps' = [preps EXCEPT ![p].pc = "dl_exists"]
     \/ /\ files' \in {files, Put(files, LockFile, File("", {}))}
        /\ preps' = [preps EXCEPT ![p] = [Task("done") EXCEPT !.result = "Err"]]
  /\ UNCHANGED dirs
  /\ TaskFrame

\* fs::remove_file(&lock_file_path), which can fail and leave the lock; its
\* error is only logged, and process_osm_import returns result
PrepUnlock(p) ==
  /\ preps[p].pc = "unlock"
  /\ \E removed \in {LockFile \in DOMAIN files, FALSE} :
       files' = IF removed THEN Unlink(files, LockFile) ELSE files
  /\ preps' = [preps EXCEPT ![p].pc = "done"]
  /\ UNCHANGED dirs
  /\ TaskFrame

(***************************************************************************)
(* download_osm_pbf / download_osc_gz and utils::download_file.            *)
(***************************************************************************)
AfterDownload == IF TypeOf(scenario) = "full" THEN "cv_exists" ELSE "gz_exists"

\* mutant: the archive is downloaded whether or not it exists
PrepDlExists_Always(p) ==
  /\ preps[p].pc = "dl_exists"
  /\ preps' = [preps EXCEPT ![p].pc = "dl_get"]
  /\ UNCHANGED <<dirs, files>>
  /\ TaskFrame

\* `if Path::new(output_path).exists() { return Ok(()) }`
PrepDlExists(p) ==
  /\ preps[p].pc = "dl_exists"
  /\ preps' = [preps EXCEPT ![p].pc =
                 IF ArchiveFile \in DOMAIN files THEN AfterDownload ELSE "dl_get"]
  /\ UNCHANGED <<dirs, files>>
  /\ TaskFrame

\* reqwest::get and the status check
PrepDlGet(p) ==
  /\ preps[p].pc = "dl_get"
  /\ \E outcome \in {"success", "status", "network"} :
       preps' = [preps EXCEPT ![p] =
                   IF outcome = "success"
                   THEN [@ EXCEPT !.pc = "dl_create", !.url = DownloadUrl(scenario)]
                   ELSE [Failed(@) EXCEPT !.url = DownloadUrl(scenario)]]
  /\ UNCHANGED <<dirs, files>>
  /\ TaskFrame

\* File::create(output_path): the archive exists, empty; its data is the set
\* of chunks written so far
PrepDlCreate(p) ==
  /\ preps[p].pc = "dl_create"
  /\ files' = Put(files, ArchiveFile, File({}, {}))
  /\ preps' = [preps EXCEPT ![p].pc = "dl_chunk", ![p].chunk = 0]
  /\ UNCHANGED dirs
  /\ TaskFrame

\* one turn of `while let Some(chunk) = stream.next().await`: the stream
\* fails, or delivers the next chunk, which is written at this task's
\* offset, or has ended
PrepDlChunk(p) ==
  /\ preps[p].pc = "dl_chunk"
  /\ \/ /\ preps[p].chunk < NumChunks
        /\ preps' = [preps EXCEPT ![p] = Failed(@)]
        /\ UNCHANGED files
     \/ /\ preps[p].chunk < NumChunks
        /\ files' = IF ArchiveFile \in DOMAIN files
                    THEN [files EXCEPT ![ArchiveFile].data = @ \cup {preps[p].chunk + 1}]
                    ELSE files
        /\ preps' = [preps EXCEPT ![p].chunk = @ + 1]
     \/ /\ preps[p].chunk = NumChunks
        /\ preps' = [preps EXCEPT ![p].pc = AfterDownload, ![p].chunk = 0]
        /\ UNCHANGED files
  /\ UNCHANGED dirs
  /\ TaskFrame

ArchiveComplete == ArchiveFile \in DOMAIN files /\ files[ArchiveFile].data = 1..NumChunks
\* the archive's length: up to the last chunk written
ArchiveSize ==
  LET written == files[ArchiveFile].data IN
  IF written = {} THEN 0
  ELSE ChunkBytes * (CHOOSE c \in written : \A d \in written : d <= c)

(***************************************************************************)
(* Full import: utils::convert_pbf_to_xml.                                 *)
(***************************************************************************)
\* `if !Path::new(&osm_xml_file).exists()`
PrepCvExists(p) ==
  /\ preps[p].pc = "cv_exists"
  /\ preps' = [preps EXCEPT ![p].pc =
                 IF XmlFile \in DOMAIN files THEN "bb_check" ELSE "cv_meta",
               ![p].chk = 1]
  /\ UNCHANGED <<dirs, files>>
  /\ TaskFrame

\* mutant: an archive that is missing or too small is not an error, the
\* task goes on to the batch builder
PrepCvMeta_Through(p) ==
  /\ preps[p].pc = "cv_meta"
  /\ preps' = [preps EXCEPT ![p] =
                 IF ArchiveFile \notin DOMAIN files \/ ArchiveSize < 1000
                 THEN [@ EXCEPT !.pc = "bb_check", !.chk = 1]
                 ELSE [@ EXCEPT !.pc = "cv_run"]]
  /\ UNCHANGED <<dirs, files>>
  /\ TaskFrame

\* fs::metadata and the size check
PrepCvMeta(p) ==
  /\ preps[p].pc = "cv_meta"
  /\ preps' = [preps EXCEPT ![p] =
                 IF ArchiveFile \notin DOMAIN files \/ ArchiveSize < 1000
                 THEN Failed(@) ELSE [@ EXCEPT !.pc = "cv_run"]]
  /\ UNCHANGED <<dirs, files>>
  /\ TaskFrame

\* the osmium subprocess: it cannot be started; or it exits non-zero, with
\* or without leaving <xml>.temp; or, on a whole archive, it exits zero
\* and has written <xml>.temp
PrepCvRun(p) ==
  /\ preps[p].pc = "cv_run"
  /\ \/ /\ preps' = [preps EXCEPT ![p] = Failed(@)]
        /\ UNCHANGED files
     \/ /\ preps' = [preps EXCEPT ![p].pc = "cv_cleanup"]
        /\ \/ UNCHANGED files
           \/ files' = Put(files, XmlTempFile, File("", {}))
     \/ /\ ArchiveComplete
        /\ files' = Put(files, XmlTempFile, File("doc", {}))
        /\ preps' = [preps EXCEPT ![p].pc = "cv_rename"]
  /\ UNCHANGED dirs
  /\ TaskFrame

\* fs::rename(&xml_temp_file, xml_file)
PrepCvRename(p) ==
  /\ preps[p].pc = "cv_rename"
  /\ IF XmlTempFile \in DOMAIN files
     THEN /\ files' = Rename(files, XmlTempFile, XmlFile)
          /\ preps' = [preps EXCEPT ![p].pc = "bb_check", ![p].chk = 1]
     ELSE /\ preps' = [preps EXCEPT ![p] = Failed(@)]
          /\ UNCHANGED files
  /\ UNCHANGED dirs
  /\ TaskFrame

\* mutant: the bail without the removal of <xml>.temp
PrepCvCleanup_Keep(p) ==
  /\ preps[p].pc = "cv_cleanup"
  /\ preps' = [preps EXCEPT ![p] = Failed(@)]
  /\ UNCHANGED <<dirs, files>>
  /\ TaskFrame

\* non-zero exit: remove <xml>.temp if it exists, then bail
PrepCvCleanup(p) ==
  /\ preps[p].pc = "cv_cleanup"
  /\ files' = IF XmlTempFile \in DOMAIN files THEN Unlink(files, XmlTempFile) ELSE files
  /\ preps' = [preps EXCEPT ![p] = Failed(@)]
  /\ UNCHANGED dirs
  /\ TaskFrame

(***************************************************************************)
(* Delta import: utils::decompress_gz.                                     *)
(***************************************************************************)
\* `if Path::new(output_path).exists() { return Ok(()) }`
PrepGzExists(p) ==
  /\ preps[p].pc = "gz_exists"
  /\ preps' = [preps EXCEPT ![p].pc =
                 IF XmlFile \in DOMAIN files THEN "bb_check" ELSE "gz_read",
               ![p].chk = 1]
  /\ UNCHANGED <<dirs, files>>
  /\ TaskFrame

\* fs::read and GzDecoder::read_to_end: a missing or truncated archive is
\* an error
PrepGzRead(p) ==
  /\ preps[p].pc = "gz_read"
  /\ preps' = [preps EXCEPT ![p] =
                 IF ArchiveComplete THEN [@ EXCEPT !.pc = "gz_open"] ELSE Failed(@)]
  /\ UNCHANGED <<dirs, files>>
  /\ TaskFrame

\* fs::write(output_path, decompressed), first half: create or truncate
PrepGzOpen(p) ==
  /\ preps[p].pc = "gz_open"
  /\ files' = OpenTrunc(files, XmlFile, p)
  /\ preps' = [preps EXCEPT ![p].pc = "gz_write"]
  /\ UNCHANGED dirs
  /\ TaskFrame

\* fs::write(output_path, decompressed), second half: the data
PrepGzWrite(p) ==
  /\ preps[p].pc = "gz_write"
  /\ files' = WriteHandle(files, p, "doc")
  /\ preps' = [preps EXCEPT ![p].pc = "bb_check", ![p].chk = 1]
  /\ UNCHANGED dirs
  /\ TaskFrame

(***************************************************************************)
(* batch_osm_xml: skip-if-done, reset, read, parse, finalize.              *)
(***************************************************************************)
\* mutant: the all_complete loop is missing, every run resets batches/
PrepBbCheck_NoSkip(p) ==
  /\ preps[p].pc = "bb_check"
  /\ preps' = [preps EXCEPT ![p] = [@ EXCEPT !.pc = "bb_rm_exists", !.chk = 0]]
  /\ UNCHANGED <<dirs, files>>
  /\ TaskFrame

\* one turn of the all_complete loop: probe the marker of Kinds[chk]; a
\* missing marker breaks the loop, the third marker found returns Ok(())
PrepBbCheck(p) ==
  /\ preps[p].pc = "bb_check"
  /\ LET k == Kinds[preps[p].chk] IN
     preps' = [preps EXCEPT ![p] =
       IF CompleteFile(k) \notin DOMAIN files
       THEN [@ EXCEPT !.pc = "bb_rm_exists", !.missing = k, !.chk = 0]
       ELSE IF preps[p].chk = Len(Kinds)
       THEN Succeeded([@ EXCEPT !.chk = 0])
       ELSE [@ EXCEPT !.chk = @ + 1]]
  /\ UNCHANGED <<dirs, files>>
  /\ TaskFrame

\* mutant: batches/ is never removed, the run goes on to create_dir_all
PrepBbRmExists_Keep(p) ==
  /\ preps[p].pc = "bb_rm_exists"
  /\ preps' = [preps EXCEPT ![p].pc = "bb_mkdir"]
  /\ UNCHANGED <<dirs, files>>
  /\ TaskFrame

\* `if Path::new(&batches_dir).exists()`
PrepBbRmExists(p) ==
  /\ preps[p].pc = "bb_rm_exists"
  /\ preps' = [preps EXCEPT ![p].pc =
                 IF "batches" \in dirs THEN "bb_rm" ELSE "bb_mkdir"]
  /\ UNCHANGED <<dirs, files>>
  /\ TaskFrame

\* fs::remove_dir_all(&batches_dir), one unlink or rmdir at a time: the
\* entries of batches/ in the order the directory lists them (any order),
\* each sub-directory emptied file by file and then removed, and at last
\* batches/ itself.  A directory that vanished meanwhile is an error.
PrepBbRm(p) ==
  /\ preps[p].pc = "bb_rm"
  /\ LET d == preps[p].rm_dir IN
     IF d = "" THEN
       \/ /\ "batches" \in dirs
          /\ \E k \in dirs \cap KindSet :
               preps' = [preps EXCEPT ![p].rm_dir = k]
          /\ UNCHANGED <<dirs, files>>
       \/ /\ "batches" \in dirs
          /\ dirs \cap KindSet = {}
          /\ dirs' = dirs \ {"batches"}
          /\ preps' = [preps EXCEPT ![p].pc = "bb_mkdir"]
          /\ UNCHANGED files
       \/ /\ "batches" \notin dirs
          /\ preps' = [preps EXCEPT ![p] = Failed(@)]
          /\ UNCHANGED <<dirs, files>>
     ELSE
       \/ /\ d \in dirs
          /\ \E f \in FilesIn(files, d) : files' = Unlink(files, f)
          /\ UNCHANGED <<dirs, preps>>
       \/ /\ d \in dirs
          /\ FilesIn(files, d) = {}
          /\ dirs' = dirs \ {d}
          /\ preps' = [preps EXCEPT ![p].rm_dir = ""]
          /\ UNCHANGED files
       \/ /\ d \notin dirs
          /\ preps' = [preps EXCEPT ![p] = Failed(@)]
          /\ UNCHANGED <<dirs, files>>
  /\ TaskFrame

\* fs::create_dir_all of batches/ (chk = 0) and of batches/<kind>
PrepBbMkdir(p) ==
  /\ preps[p].pc = "bb_mkdir"
  /\ dirs' = dirs \cup (IF preps[p].chk = 0 THEN {"batches"}
                        ELSE {"batches", Kinds[preps[p].chk]})
  /\ preps' = [preps EXCEPT ![p] =
                 IF preps[p].chk = Len(Kinds)
                 THEN [@ EXCEPT !.pc = "bb_read", !.chk = 0]
                 ELSE [@ EXCEPT !.chk = @ + 1]]
  /\ UNCHANGED files
  /\ TaskFrame

\* what read_to_string(input_file) yields the reader
EventsRead(data) == IF data = "doc" THEN EventsOf(scenario) ELSE <<>>

\* fs::read_to_string(input_file), parse_root_element, the initialisation
\* of the parsing state
PrepBbRead(p) ==
  /\ preps[p].pc = "bb_read"
  /\ preps' = [preps EXCEPT ![p] =
       IF XmlFile \notin DOMAIN files THEN Failed(@)
       ELSE LET root == ParseRootElement(EventsRead(files[XmlFile].data)) IN
            IF ~root.ok THEN Failed(@)
            ELSE [Task("parse") EXCEPT !.root_info = root, !.pos = 1]]
  /\ UNCHANGED <<dirs, files>>
  /\ TaskFrame

\* mutant: a reader error ends the loop like Eof
ParseTurn_ErrAsEof(t, events, import_type) ==
  IF t.pos > Len(events) \/ events[t.pos].type = "Err"
  THEN [t EXCEPT !.pc = "fin", !.chk = 1, !.pos = 0]
  ELSE LET t1 == OnEvent(t, events[t.pos], import_type) IN
       IF t1.pushed # "none" /\ BatchIsFull(t1, import_type)
       THEN [t1 EXCEPT !.pc = "wb_open", !.wb_kind = t1.element_type]
       ELSE [EndOfArm(t1) EXCEPT !.pos = @ + 1]

\* one turn of the loop: the reader's next event.  Eof breaks the loop, an
\* error bails, a push that fills the buffer calls write_batch.
ParseTurn(t, events, import_type) ==
  IF t.pos > Len(events) THEN [t EXCEPT !.pc = "fin", !.chk = 1, !.pos = 0]
  ELSE IF events[t.pos].type = "Err" THEN Failed(t)
  ELSE LET t1 == OnEvent(t, events[t.pos], import_type) IN
       IF t1.pushed # "none" /\ BatchIsFull(t1, import_type)
       THEN [t1 EXCEPT !.pc = "wb_open", !.wb_kind = t1.element_type]
       ELSE [EndOfArm(t1) EXCEPT !.pos = @ + 1]

RECURSIVE ParseRun(_, _, _)
\* the turns of the loop up to its next filesystem call (write_batch) or
\* its end
ParseRun(t, events, import_type) ==
  LET t1 == ParseTurn(t, events, import_type) IN
  IF t1.pc = "parse" THEN ParseRun(t1, events, import_type) ELSE t1

\* the loop, turn by turn
PrepParse(p) ==
  /\ preps[p].pc = "parse"
  /\ preps' = [preps EXCEPT ![p] = ParseTurn(@, EventsOf(scenario), TypeOf(scenario))]
  /\ UNCHANGED <<dirs, files>>
  /\ TaskFrame

\* the loop, from one filesystem call to the next: the turns in between
\* touch the task's memory only
PrepParseRun(p) ==
  /\ preps[p].pc = "parse"
  /\ preps' = [preps EXCEPT ![p] = ParseRun(@, EventsOf(scenario), TypeOf(scenario))]
  /\ UNCHANGED <<dirs, files>>
  /\ TaskFrame

(***************************************************************************)
(* write_batch: fs::write to <path>.temp, then fs::rename.                 *)
(***************************************************************************)
\* fs::write(&temp_path, content), first half: create or truncate.  The
\* call fails when batches/<kind> is gone, or on an I/O error.
PrepWbOpen(p) ==
  /\ preps[p].pc = "wb_open"
  /\ LET k == preps[p].wb_kind
         n == preps[p].batch_counts[k]
     IN \/ /\ k \in dirs
           /\ files' = OpenTrunc(files, TempFile(k, n), p)
           /\ preps' = [preps EXCEPT ![p].pc = "wb_write"]
        \/ /\ preps' = [preps EXCEPT ![p] = Failed(@)]
           /\ UNCHANGED files
  /\ UNCHANGED dirs
  /\ TaskFrame

\* fs::write(&temp_path, content), second half: the content
PrepWbWrite(p) ==
  /\ preps[p].pc = "wb_write"
  /\ LET k == preps[p].wb_kind IN
     files' = WriteHandle(files, p,
                BatchContent(preps[p].root_info, preps[p].current_batches[k]))
  /\ preps' = [preps EXCEPT ![p].pc = "wb_rename"]
  /\ UNCHANGED dirs
  /\ TaskFrame

\* mutant: in the finalization the temporary is not renamed before the
\* batch is counted
PrepWbRename_Skip(p) ==
  /\ preps[p].pc = "wb_rename"
  /\ LET t == preps[p]
         k == t.wb_kind
         n == t.batch_counts[k]
     IN IF TempFile(k, n) \in DOMAIN files /\ k \in dirs
        THEN IF t.pushed # "none"
             THEN /\ files' = Rename(files, TempFile(k, n), BatchFile(k, n))
                  /\ preps' = [preps EXCEPT ![p] =
                       [EndOfArm(AfterFlush(t)) EXCEPT !.pc = "parse", !.pos = @ + 1,
                                                       !.wb_kind = ""]]
             ELSE /\ UNCHANGED files
                  /\ preps' = [preps EXCEPT ![p] =
                       [t EXCEPT !.batch_counts[k] = @ + 1, !.pc = "fin_complete",
                                 !.wb_kind = ""]]
        ELSE /\ preps' = [preps EXCEPT ![p] = Failed(@)]
             /\ UNCHANGED files
  /\ UNCHANGED dirs
  /\ TaskFrame

\* fs::rename(&temp_path, &batch_path), and the caller's statements after
\* write_batch returned: in the loop the batch is counted, the buffer
\* cleared and the arm ends; in the finalization the batch is counted
PrepWbRename(p) ==
  /\ preps[p].pc = "wb_rename"
  /\ LET t == preps[p]
         k == t.wb_kind
         n == t.batch_counts[k]
     IN IF TempFile(k, n) \in DOMAIN files /\ k \in dirs
        THEN /\ files' = Rename(files, TempFile(k, n), BatchFile(k, n))
             /\ preps' = [preps EXCEPT ![p] =
                  IF t.pushed # "none"
                  THEN [EndOfArm(AfterFlush(t)) EXCEPT !.pc = "parse", !.pos = @ + 1,
                                                       !.wb_kind = ""]
                  ELSE [t EXCEPT !.batch_counts[k] = @ + 1, !.pc = "fin_complete",
                                 !.wb_kind = ""]]
        ELSE /\ preps' = [preps EXCEPT ![p] = Failed(@)]
             /\ UNCHANGED files
  /\ UNCHANGED dirs
  /\ TaskFrame

\* mutant: a kind without a batch gets no completion marker
PrepFin_SkipEmpty(p) ==
  /\ preps[p].pc = "fin"
  /\ LET k == Kinds[preps[p].chk] IN
     preps' = [preps EXCEPT ![p] =
       IF preps[p].current_batches[k] # <<>>
       THEN [@ EXCEPT !.pc = "wb_open", !.wb_kind = k]
       ELSE IF preps[p].batch_counts[k] > 0
       THEN [@ EXCEPT !.pc = "fin_complete"]
       ELSE IF preps[p].chk = Len(Kinds)
       THEN Succeeded([@ EXCEPT !.chk = 0])
       ELSE [@ EXCEPT !.chk = @ + 1]]
  /\ UNCHANGED <<dirs, files>>
  /\ TaskFrame

\* the finalization loop, kind Kinds[chk]: a non-empty buffer is written as
\* the last batch
PrepFin(p) ==
  /\ preps[p].pc = "fin"
  /\ LET k == Kinds[preps[p].chk] IN
     preps' = [preps EXCEPT ![p] =
       IF preps[p].current_batches[k] # <<>>
       THEN [@ EXCEPT !.pc = "wb_open", !.wb_kind = k]
       ELSE [@ EXCEPT !.pc = "fin_complete"]]
  /\ UNCHANGED <<dirs, files>>
  /\ TaskFrame

\* fs::write(&completion_file, &completion_message): the marker's data is
\* never read, so the creation and the write are one step.  The call fails
\* when batches/<kind> is gone, or on an I/O error.
PrepFinComplete(p) ==
  /\ preps[p].pc = "fin_complete"
  /\ LET k == Kinds[preps[p].chk] IN
     \/ /\ k \in dirs
        /\ files' = Put(files, CompleteFile(k),
                        File(CompletionMessage(preps[p].batch_counts[k],
                                               FilenameBase(scenario)), {}))
        /\ preps' = [preps EXCEPT ![p] =
             IF preps[p].chk = Len(Kinds)
             THEN Succeeded([@ EXCEPT !.chk = 0])
             ELSE [@ EXCEPT !.pc = "fin", !.chk = @ + 1]]
     \/ /\ preps' = [preps EXCEPT ![p] = Failed(@)]
        /\ UNCHANGED files
  /\ UNCHANGED dirs
  /\ TaskFrame

(***************************************************************************)
(* A request: check_batch_file_status, then maybe_start on NotYet.         *)
(***************************************************************************)
\* a request arrives for (element_type, batch_number)
ReqStart(r) ==
  /\ reqs[r].pc \in {"idle", "done"}
  /\ \A q \in ReqIds : q < r => reqs[q].pc \notin {"idle", "done"}
  /\ issued < MaxRequests
  /\ \E k \in KindSet, n \in 0..MaxBatchNumber :
       reqs' = [reqs EXCEPT ![r] = Request("exists", k, n)]
  /\ issued' = issued + 1
  /\ UNCHANGED <<dirs, files, preps, spawned>>
  /\ Frame

\* Path::new(&batch_file_path).exists()
ReqExists(r) ==
  /\ reqs[r].pc = "exists"
  /\ reqs' = [reqs EXCEPT ![r].pc = "read",
                ![r].exists = BatchFile(reqs[r].element_type, reqs[r].batch_number)
                                \in DOMAIN files]
  /\ UNCHANGED <<dirs, files, preps, issued, spawned>>
  /\ Frame

\* tokio::fs::read_to_string(&batch_file_path), which fails on a missing
\* file and can fail on an existing one, and the first two arms of the match
ReqRead(r) ==
  /\ reqs[r].pc = "read"
  /\ LET f == BatchFile(reqs[r].element_type, reqs[r].batch_number) IN
     \E read_ok \in {f \in DOMAIN files, FALSE} :
       reqs' = [reqs EXCEPT ![r] =
         LET q == [@ EXCEPT !.read = IF read_ok THEN "Ok" ELSE "Err"] IN
         IF ~q.exists THEN [q EXCEPT !.pc = "complete"]
         ELSE IF read_ok
         THEN [q EXCEPT !.pc = "done", !.status = "FileReadSuccessfully",
                        !.content = files[f].data]
         ELSE [q EXCEPT !.pc = "done", !.status = "FileReadError"]]
  /\ UNCHANGED <<dirs, files, preps, issued, spawned>>
  /\ Frame

\* mutant: the two outcomes of the marker probe are exchanged
ReqComplete_Swapped(r) ==
  /\ reqs[r].pc = "complete"
  /\ reqs' = [reqs EXCEPT ![r] =
       IF CompleteFile(reqs[r].element_type) \notin DOMAIN files
       THEN [@ EXCEPT !.pc = "done", !.status = "FileWillNeverExist"]
       ELSE [@ EXCEPT !.pc = "maybe_start", !.status = "FileDoesNotExistYet"]]
  /\ UNCHANGED <<dirs, files, preps, issued, spawned>>
  /\ Frame

\* Path::new(&batches_complete_file_path).exists()
ReqComplete(r) ==
  /\ reqs[r].pc = "complete"
  /\ reqs' = [reqs EXCEPT ![r] =
       IF CompleteFile(reqs[r].element_type) \in DOMAIN files
       THEN [@ EXCEPT !.pc = "done", !.status = "FileWillNeverExist"]
       ELSE [@ EXCEPT !.pc = "maybe_start", !.status = "FileDoesNotExistYet"]]
  /\ UNCHANGED <<dirs, files, preps, issued, spawned>>
  /\ Frame

\* maybe_start_background_processing: without a lock file, tokio::spawn
ReqMaybeStart(r) ==
  /\ reqs[r].pc = "maybe_start"
  /\ IF LockFile \in DOMAIN files
     THEN UNCHANGED <<preps, spawned>>
     ELSE /\ spawned < MaxSpawns
          /\ \E p \in PrepIds :
               /\ ~Running(p)
               /\ \A q \in PrepIds : q < p => Running(q)
               /\ preps' = [preps EXCEPT ![p] = Task("mkdir")]
          /\ spawned' = spawned + 1
  /\ reqs' = [reqs EXCEPT ![r].pc = "done"]
  /\ UNCHANGED <<dirs, files, issued>>
  /\ Frame

(***************************************************************************)
(* main.rs fetch_import_batch: the check of the import_type argument, the  *)
(* probes of the batch file and of the completion file, the lock check and *)
(* the spawn.  An identifier is the sequence of its characters.            *)
(***************************************************************************)
Digit == {"0", "1", "2", "3", "4", "5", "6", "7", "8", "9"}

\* FullDate::new: the regex ^[0-9]{6}$
FullDate_new(date) ==
  Len(date) = 6 /\ \A i \in DOMAIN date : date[i] \in Digit

\* DeltaAbc::new: the regex ^[0-9]{3}/[0-9]{3}/[0-9]{3}$
DeltaAbc_new(abc) ==
  /\ Len(abc) = 11
  /\ \A i \in DOMAIN abc : IF i \in {4, 8} THEN abc[i] = "/" ELSE abc[i] \in Digit

\* the identifier model: the import_type values an ImportOptions can hold
ValidImportType(import_type) ==
  CASE import_type.tag = "FullDate" -> FullDate_new(import_type.arg)
    [] import_type.tag = "DeltaAbc" -> DeltaAbc_new(import_type.arg)
    [] OTHER -> FALSE

\* abc.matches('/').count()
MatchesCount(str, c) == Cardinality({i \in DOMAIN str : str[i] = c})

\* the handler's own check of req.import_type: the reason of the Error
\* response it returns at once, "" when it goes on
ArgError(import_type) ==
  CASE import_type.tag = "FullDate" ->
         IF ~(\A i \in DOMAIN import_type.arg : import_type.arg[i] \in Digit)
            \/ Len(import_type.arg) # 6
         THEN "date arg invalid (expected ddmmyy)" ELSE ""
    [] import_type.tag = "DeltaAbc" ->
         IF MatchesCount(import_type.arg, "/") # 2
            \/ ~(\A i \in DOMAIN import_type.arg :
                   import_type.arg[i] \in Digit \/ import_type.arg[i] = "/")
         THEN "abc arg invalid (expected AAA/BBB/CCC)" ELSE ""
    [] OTHER -> "import type is unknown"

\* the first, third and fourth components of the tuple the match yields
ImportTypeName(import_type) ==
  IF import_type.tag = "FullDate" THEN "full" ELSE "delta"
ImportArgDir(import_type) ==
  IF import_type.tag = "FullDate" THEN Concat(import_type.arg)
  ELSE Concat(Replace(import_type.arg, "/", "_"))
ImportFile(import_type) ==
  ImportArgDir(import_type)
    \o (IF import_type.tag = "FullDate" THEN ".osm" ELSE ".osc")

\* the path strings the handler formats
import_dir(import_type) ==
  "./data/bangladesh/" \o ImportTypeName(import_type) \o "/" \o ImportArgDir(import_type)
import_lock_file(import_type) == import_dir(import_type) \o "/lock"
batch_file(import_type, element_type, batch_number) ==
  import_dir(import_type) \o "/batches/" \o element_type \o "/"
    \o ImportFile(import_type) \o ".batch_" \o Pad6(batch_number) \o ".xml"
batches_complete_file(import_type, element_type) ==
  import_dir(import_type) \o "/batches/" \o element_type \o "/"
    \o ImportFile(import_type) \o ".batches_complete"

\* the paths the handler formats lie in the import directory of the model
\* when they name the served import; every other directory holds nothing
InServedDir(import_type) ==
  /\ ImportTypeName(import_type) = TypeOf(scenario)
  /\ ImportFile(import_type) = FilenameBase(scenario)

\* Path::new(..).exists() on a path the handler formatted
HandlerExists(import_type, path) ==
  InServedDir(import_type) /\ path \in DOMAIN files

\* the import_type values the calls are made with
ImportTypes ==
  {[tag |-> "None", arg |-> <<>>]}
  \cup {[tag |-> "FullDate", arg |-> a] :
          a \in {FullArg, <<"0", "1", "0", "1", "2">>,
                 <<"0", "1", "a", "1", "2", "3">>}}
  \cup {[tag |-> "DeltaAbc", arg |-> a] :
          a \in {DeltaArg, <<"1", "/", "2", "/", "3">>,
                 <<"0", "0", "0", "/", "0", "0", "1">>}}

\* the arguments of a call: any kind and batch number of the served
\* import, the first node batch of every other import_type
FetchInputs ==
  {in \in [import_type : ImportTypes, element_type : KindSet,
           batch_number : 0..MaxBatchNumber] :
     InServedDir(in.import_type)
     \/ (in.element_type = "node" /\ in.batch_number = 0)}

\* a lock file that no running task is going to remove
StaleLock == LockFile \in DOMAIN files /\ \A p \in PrepIds : ~Running(p)

\* the frame of a step of the handler
FetchFrame ==
  /\ completed' = completed \cup Markers(files')
  /\ UNCHANGED <<scenario, reqs, issued>>

Respond(c, tag, body) ==
  [c EXCEPT !.pc = "done", !.response = [tag |-> tag, body |-> body]]

\* the call arrives; the match on req.import_type returns the Error
\* response or yields the paths
FetchStart ==
  /\ call.pc \in {"idle", "done"}
  /\ fetches < MaxFetches
  /\ \E in \in FetchInputs :
       LET c == [FetchCall("exists", in.import_type, in.element_type, in.batch_number)
                   EXCEPT !.since_ok = \E p \in PrepIds : ReturnedOk(p),
                          !.since_stale = StaleLock] IN
       call' = IF ArgError(in.import_type) # ""
               THEN Respond(c, "Error", ArgError(in.import_type))
               ELSE c
  /\ fetches' = fetches + 1
  /\ UNCHANGED <<dirs, files, preps, spawned>>
  /\ FetchFrame

\* if Path::new(&batch_file).exists()
FetchExists ==
  /\ call.pc = "exists"
  /\ call' = IF HandlerExists(call.import_type,
                              BatchFile(call.element_type, call.batch_number))
             THEN [call EXCEPT !.pc = "read", !.exists = "yes"]
             ELSE [call EXCEPT !.pc = "complete", !.exists = "no"]
  /\ UNCHANGED <<dirs, files, preps, fetches, spawned>>
  /\ FetchFrame

\* mutant: a failed read does not return, the handler goes on to the
\* completion file
FetchRead_Fallthrough ==
  /\ call.pc = "read"
  /\ LET f == BatchFile(call.element_type, call.batch_number) IN
     \E read_ok \in {HandlerExists(call.import_type, f), FALSE} :
       call' = IF read_ok
               THEN LET content == files[f].data IN
                    Respond([call EXCEPT !.read = "Ok", !.content = content],
                            "BatchContent", content)
               ELSE [call EXCEPT !.read = "Err", !.pc = "complete"]
  /\ UNCHANGED <<dirs, files, preps, fetches, spawned>>
  /\ FetchFrame

\* tokio::fs::read_to_string(&batch_file) and the two arms of its match
FetchRead ==
  /\ call.pc = "read"
  /\ LET f == BatchFile(call.element_type, call.batch_number) IN
     \E read_ok \in {HandlerExists(call.import_type, f), FALSE} :
       call' = IF read_ok
               THEN LET content == files[f].data IN
                    Respond([call EXCEPT !.read = "Ok", !.content = content],
                            "BatchContent", content)
               ELSE Respond([call EXCEPT !.read = "Err"], "Error",
                            "Failed to read batch file")
  /\ UNCHANGED <<dirs, files, preps, fetches, spawned>>
  /\ FetchFrame

\* mutant: the completion file is not probed
FetchComplete_NoProbe ==
  /\ call.pc = "complete"
  /\ call' = [call EXCEPT !.pc = "lock", !.complete = "no"]
  /\ UNCHANGED <<dirs, files, preps, fetches, spawned>>
  /\ FetchFrame

\* if Path::new(&batches_complete_file).exists()
FetchComplete ==
  /\ call.pc = "complete"
  /\ call' = IF HandlerExists(call.import_type, CompleteFile(call.element_type))
             THEN Respond([call EXCEPT !.complete = "yes"], "BatchesComplete", "")
             ELSE [call EXCEPT !.pc = "lock", !.complete = "no"]
  /\ UNCHANGED <<dirs, files, preps, fetches, spawned>>
  /\ FetchFrame

\* mutant: the task is spawned without looking at the lock file
FetchLock_NoCheck ==
  /\ call.pc = "lock"
  /\ call' = Respond([call EXCEPT !.lock = "no", !.spawn = TRUE],
                     "BatchesPending", "")
  /\ IF InServedDir(call.import_type)
     THEN /\ spawned < MaxSpawns
          /\ \E p \in PrepIds :
               /\ ~Running(p)
               /\ \A q \in PrepIds : q < p => Running(q)
               /\ preps' = [preps EXCEPT ![p] = Task("mkdir")]
          /\ spawned' = spawned + 1
     ELSE UNCHANGED <<preps, spawned>>
  /\ UNCHANGED <<dirs, files, fetches>>
  /\ FetchFrame

\* if !Path::new(&import_lock_file).exists() { tokio::spawn(..) } and the
\* BatchesPending response.  The task spawned for the served import is
\* process_osm_import; a task spawned for another import works in another
\* directory.
FetchLock ==
  /\ call.pc = "lock"
  /\ IF HandlerExists(call.import_type, LockFile)
     THEN /\ call' = Respond([call EXCEPT !.lock = "yes"], "BatchesPending", "")
          /\ UNCHANGED <<preps, spawned>>
     ELSE /\ call' = Respond([call EXCEPT !.lock = "no", !.spawn = TRUE],
                             "BatchesPending", "")
          /\ IF InServedDir(call.import_type)
             THEN /\ spawned < MaxSpawns
                  /\ \E p \in PrepIds :
                       /\ ~Running(p)
                       /\ \A q \in PrepIds : q < p => Running(q)
                       /\ preps' = [preps EXCEPT ![p] = Task("mkdir")]
                  /\ spawned' = spawned + 1
             ELSE UNCHANGED <<preps, spawned>>
  /\ UNCHANGED <<dirs, files, fetches>>
  /\ FetchFrame

(***************************************************************************)
(* Specifications.                                                         *)
(***************************************************************************)
PipelineStep(p) ==
  \/ PrepMkdir(p) \/ PrepLock(p) \/ PrepUnlock(p)
  \/ PrepDlExists(p) \/ PrepDlGet(p) \/ PrepDlCreate(p) \/ PrepDlChunk(p)
  \/ PrepCvExists(p) \/ PrepCvMeta(p) \/ PrepCvRun(p) \/ PrepCvRename(p)
  \/ PrepCvCleanup(p)
  \/ PrepGzExists(p) \/ PrepGzRead(p) \/ PrepGzOpen(p) \/ PrepGzWrite(p)

BuilderIo(p) ==
  \/ PrepBbCheck(p) \/ PrepBbRmExists(p) \/ PrepBbRm(p) \/ PrepBbMkdir(p)
  \/ PrepBbRead(p)
  \/ PrepWbOpen(p) \/ PrepWbWrite(p) \/ PrepWbRename(p)
  \/ PrepFin(p) \/ PrepFinComplete(p)

PrepStep(p) == PipelineStep(p) \/ BuilderIo(p) \/ PrepParseRun(p)

ReqStep(r) ==
  ReqStart(r) \/ ReqExists(r) \/ ReqRead(r) \/ ReqComplete(r) \/ ReqMaybeStart(r)

Next ==
  \/ \E p \in PrepIds : PrepStep(p)
  \/ \E r \in ReqIds : ReqStep(r)

Spec == Init /\ [][Next]_vars

\* The runs of one polling client: a call is made only after the previous
\* call has returned, so no call passes the lock check of
\* maybe_start_background_processing while a spawned task has yet to write
\* its lock file, and preparations follow one another and never overlap.
\* The steps of the call still interleave with those of the preparation.
InFlight(r) == reqs[r].pc \notin {"idle", "done"}

\* a call is made when no other call is in flight
SerialReqStart(r) ==
  /\ \A q \in ReqIds : ~InFlight(q)
  /\ ReqStart(r)

\* the lock check is made when no spawned task is short of its lock file
SerialReqMaybeStart(r) ==
  /\ LockFile \notin DOMAIN files => \A p \in PrepIds : ~Running(p)
  /\ ReqMaybeStart(r)

SerialNext ==
  \/ \E p \in PrepIds : PrepStep(p)
  \/ \E r \in ReqIds :
        \/ SerialReqStart(r) \/ ReqExists(r) \/ ReqRead(r) \/ ReqComplete(r)
        \/ SerialReqMaybeStart(r)

SerialSpec == Init /\ [][SerialNext]_vars

\* The same runs with the scheduling the runtime gives a spawned task: it
\* is polled until it returns, and each of its I/O calls returns, with a
\* value or an error.  Nothing is assumed of the calls of the client, which
\* may stop at any point.
\* The loop of the batch builder is taken event by event.
LiveStep(p) == PipelineStep(p) \/ BuilderIo(p) \/ PrepParse(p)

LiveNext ==
  \/ \E p \in PrepIds : LiveStep(p)
  \/ \E r \in ReqIds :
        \/ SerialReqStart(r) \/ ReqExists(r) \/ ReqRead(r) \/ ReqComplete(r)
        \/ SerialReqMaybeStart(r)

LiveSpec ==
  /\ Init /\ [][LiveNext]_vars
  /\ \A p \in PrepIds : WF_vars(LiveStep(p))

\* The runs of one client of the service: fetch_import_batch calls made one
\* after the other, each interleaved with the preparation, and preparations
\* that never overlap.
SerialFetchLock ==
  /\ LockFile \notin DOMAIN files => \A p \in PrepIds : ~Running(p)
  /\ FetchLock

FetchNext ==
  \/ \E p \in PrepIds : PrepStep(p)
  \/ FetchStart \/ FetchExists \/ FetchRead \/ FetchComplete \/ SerialFetchLock

FetchSpec == Init /\ [][FetchNext]_vars

(***************************************************************************)
(* The source's top-level elements, read off the document's construction   *)
(* (not through the loop above): the text of each element as it stands in  *)
(* the source, inside its change wrapper in a delta.                       *)
(***************************************************************************)
SourceText(template, i) ==
  LET id == " id=\"" \o ToString(i) \o "\"" IN
  CASE template = "node_empty" -> "<node" \o id \o "/>"
    [] template = "node_full" ->
         "<node" \o id \o "><tag k=\"name\" v=\"a\"/></node>"
    [] template = "way" ->
         "<way" \o id \o "><nd ref=\"1\"/><tag k=\"note\">t</tag></way>"
    [] template = "relation" ->
         "<relation" \o id \o "><member type=\"way\" ref=\"2\"/></relation>"
    [] template = "modify_node" -> "<modify>\n<node" \o id \o "/>\n</modify>"
    [] template = "delete_way" ->
         "<delete>\n<way" \o id \o "><nd ref=\"1\"/></way>\n</delete>"
    [] template = "bare_relation" -> "<relation" \o id \o "/>"
    [] template = "node_entity" ->
         "<node" \o id \o " name=\"a&amp;b\"><tag k=\"x&gt;y\">c&lt;d</tag></node>"
    [] template = "way_nested" ->
         "<way" \o id \o "><node id=\"0\"/><nd ref=\"1\"/></way>"
    [] template = "relation_nested" ->
         "<relation" \o id \o "><way id=\"0\"><nd ref=\"1\"/></way></relation>"
    [] template = "node_delete_child" ->
         "<node" \o id \o "><delete></delete></node>"
    [] template = "create_node" -> "<create>\n<node" \o id \o "/>\n</create>"
    [] template = "create_way" ->
         "<create>\n<way" \o id \o "><nd ref=\"1\"/></way>\n</create>"

\* the top-level k-elements of document sc, in source order
SourceElements(d, k) ==
  LET ids == SelectSeq([i \in 1..d.n |-> i],
                       LAMBDA i : TemplateKind(TemplateAt(d.pattern, i)) = k)
  IN [j \in 1..Len(ids) |-> SourceText(TemplateAt(d.pattern, ids[j]), ids[j])]

SourceByKind ==
  [sc \in DOMAIN AllDocuments |->
     [i \in 1..Len(Kinds) |-> SourceElements(AllDocuments[sc], Kinds[i])]]
KindIndex(k) == CHOOSE i \in 1..Len(Kinds) : Kinds[i] = k
Source(sc, k) == SourceByKind[sc][KindIndex(k)]

\* the batch size the claims state for an import type
ClaimedBatchSize(sc) == IF TypeOf(sc) = "full" THEN 500 ELSE 1000

\* number of batches n elements fill, the last one possibly short
BatchesFor(n, B) == (n + B - 1) \div B

(***************************************************************************)
(* The batch builder alone: one run of batch_osm_xml over a long document, *)
(* turn by turn, in an import directory that is fresh, or holds what an    *)
(* earlier run left when it failed after finishing `done` kinds, or holds  *)
(* all of an earlier run.                                                  *)
(***************************************************************************)
\* what a run leaves: every full batch flushed by the loop, and for the
\* kinds in done the last batch and the marker
LeftBy(sc, done) ==
  LET left == {BatchFile(k, j) : k \in KindSet, j \in 0..3} \cup {CompleteFile(k) : k \in KindSet}
      present(f, E, B) ==
        IF f.t = "complete" THEN f.k \in done
        ELSE \/ (f.n + 1) * B <= Len(E)
             \/ f.k \in done /\ f.n * B < Len(E)
      content(f, E, B, root, base) ==
        IF f.t = "complete"
        THEN CompletionMessage(BatchesFor(Len(E), B), base)
        ELSE BatchContent(root, SubSeq(E, f.n * B + 1,
                                        IF (f.n + 1) * B <= Len(E) THEN (f.n + 1) * B ELSE Len(E)))
      all(B, root, base) ==
        [f \in {g \in left : present(g, Source(sc, g.k), B)} |->
           File(content(f, Source(sc, f.k), B, root, base), {})]
  IN all(ElementsPerBatch(TypeOf(sc)), ParseRootElement(EventsOf(sc)), FilenameBase(sc))

\* the import directory when the pipeline reaches batch_osm_xml
StagedFiles ==
  [f \in {LockFile, ArchiveFile, XmlFile} |->
     IF f = LockFile THEN File("locked", {})
     ELSE IF f = ArchiveFile THEN File(1..NumChunks, {})
     ELSE File("doc", {})]

Merge(f, g) == [x \in (DOMAIN f) \cup (DOMAIN g) |-> IF x \in DOMAIN f THEN f[x] ELSE g[x]]

BuilderInit ==
  /\ scenario \in ScenarioIds
  /\ \/ /\ files = StagedFiles
        /\ dirs = {"import_dir"}
     \/ \E done \in {{}, {"node"}, {"node", "way"}, KindSet} :
          /\ files = Merge(StagedFiles, LeftBy(scenario, done))
          /\ dirs = {"import_dir", "batches"} \cup KindSet
  /\ preps = [p \in PrepIds |-> IF p = 1 THEN [Task("bb_check") EXCEPT !.chk = 1]
                                ELSE Task("idle")]
  /\ reqs = [r \in ReqIds |-> Request("idle", "", 0)]
  /\ issued = 0
  /\ spawned = 1
  /\ completed = Markers(files)
  /\ call = NoCall
  /\ fetches = 0

BuilderNext == \E p \in PrepIds : BuilderIo(p) \/ PrepParse(p)

BuilderSpec == BuilderInit /\ [][BuilderNext]_vars

\* The batch builder alone on the documents of the parser's corner cases,
\* on a document that fills batches with self-closing elements and on a
\* delta with wrapped and unwrapped elements, event by event; the import
\* directory is fresh or holds the empty directories of a run that stopped
\* after its reset.
ParserInit ==
  /\ scenario \in EdgeScenarios \cup {3, 6}
  /\ files = StagedFiles
  /\ dirs \in {{"import_dir"}, {"import_dir", "batches"} \cup KindSet}
  /\ preps = [p \in PrepIds |-> IF p = 1 THEN [Task("bb_check") EXCEPT !.chk = 1]
                                ELSE Task("idle")]
  /\ reqs = [r \in ReqIds |-> Request("idle", "", 0)]
  /\ issued = 0
  /\ spawned = 1
  /\ completed = {}
  /\ call = NoCall
  /\ fetches = 0

ParserSpec == ParserInit /\ [][BuilderNext]_vars

\* The batch builder on whatever the reader may hand to it: the parser's
\* corner cases, a document that fills batches, and every sequence of
\* MaxEvents events, event by event, in an import directory that holds the
\* empty batches directory of an earlier run.
EventInit ==
  /\ scenario \in EdgeScenarios \cup EventScenarios \cup {3}
  /\ files = StagedFiles
  /\ dirs = {"import_dir", "batches"}
  /\ preps = [p \in PrepIds |-> IF p = 1 THEN [Task("bb_check") EXCEPT !.chk = 1]
                                ELSE Task("idle")]
  /\ reqs = [r \in ReqIds |-> Request("idle", "", 0)]
  /\ issued = 0
  /\ spawned = 1
  /\ completed = {}
  /\ call = NoCall
  /\ fetches = 0

EventSpec == EventInit /\ [][BuilderNext]_vars

\* The polling client across a retry.  The runs start on an empty data
\* directory, or where a preparation has failed in its finalization after
\* the kinds in done (their batches and markers are published, the lock is
\* removed) and a call that found a batch missing has just spawned the next
\* preparation.  Each call keeps its record, so that the answers of two
\* calls can be compared: call r is made after the calls before it returned.
RetryInit ==
  /\ scenario \in ShortScenarios
  /\ \/ /\ files = <<>>
        /\ dirs = {}
        /\ preps = [p \in PrepIds |-> Task("idle")]
        /\ spawned = 0
     \/ \E done \in {{"node"}, {"node", "way"}} :
          /\ files = Merge([f \in {ArchiveFile, XmlFile} |-> StagedFiles[f]],
                           LeftBy(scenario, done))
          /\ dirs = {"import_dir", "batches"} \cup KindSet
          /\ preps = [p \in PrepIds |-> IF p = 1 THEN Task("mkdir") ELSE Task("idle")]
          /\ spawned = 1
  /\ reqs = [r \in ReqIds |-> Request("idle", "", 0)]
  /\ issued = 0
  /\ completed = Markers(files)
  /\ call = NoCall
  /\ fetches = 0

\* a call is made when the calls before it have returned; its record is new
KeptReqStart(r) ==
  /\ reqs[r].pc = "idle"
  /\ \A q \in ReqIds : q < r => reqs[q].pc = "done"
  /\ \A q \in ReqIds : ~InFlight(q)
  /\ issued < MaxRequests
  /\ \E k \in KindSet, n \in 0..MaxBatchNumber :
       reqs' = [reqs EXCEPT ![r] = Request("exists", k, n)]
  /\ issued' = issued + 1
  /\ UNCHANGED <<dirs, files, preps, spawned>>
  /\ Frame

RetryNext ==
  \/ \E p \in PrepIds : PrepStep(p)
  \/ \E r \in ReqIds :
        \/ KeptReqStart(r) \/ ReqExists(r) \/ ReqRead(r) \/ ReqComplete(r)
        \/ SerialReqMaybeStart(r)

RetrySpec == RetryInit /\ [][RetryNext]_vars

(***************************************************************************)
(* The oracle alone: check_batch_file_status on a filesystem that nothing  *)
(* changes, holding any part of what a run leaves.                         *)
(***************************************************************************)
OracleInit ==
  /\ scenario \in ShortScenarios
  /\ \E keep \in SUBSET DOMAIN LeftBy(scenario, KindSet) :
       files = [f \in keep |-> LeftBy(scenario, KindSet)[f]]
  /\ dirs = {"import_dir", "batches"} \cup KindSet
  /\ preps = [p \in PrepIds |-> Task("idle")]
  /\ reqs = [r \in ReqIds |-> Request("idle", "", 0)]
  /\ issued = 0
  /\ spawned = 0
  /\ completed = Markers(files)
  /\ call = NoCall
  /\ fetches = 0

OracleNext ==
  \E r \in ReqIds : ReqStart(r) \/ ReqExists(r) \/ ReqRead(r) \/ ReqComplete(r)

OracleSpec == OracleInit /\ [][OracleNext]_vars

(***************************************************************************)
(* Properties.                                                             *)
(***************************************************************************)
BatchIndices(k) == {f.n : f \in {g \in DOMAIN files : g.t = "batch" /\ g.k = k}}
\* the top-level elements of a batch file: what lies between the root line
\* and the closing root
ElementsOf(data) == SubSeq(data, 3, Len(data) - 1)
\* a batch file is whole: declaration, root line, elements, closing root
WholeBatch(data) ==
  /\ Len(data) >= 4
  /\ data[1] = XmlDecl
  /\ data[2] = [tag |-> data[2].tag, attributes |-> data[2].attributes]
  /\ data[Len(data)] = "</" \o data[2].tag \o ">\n"
\* the count a completion marker states
CountOf(data) ==
  CHOOSE c \in 0..4 : data = CompletionMessage(c, FilenameBase(scenario))
\* the batch builder of task p returned Ok(()) after parsing the source
BuiltOk(p) ==
  preps[p].pc \in {"unlock", "done"} /\ preps[p].result = "Ok" /\ preps[p].root_info.ok
\* task p is between the reset and the return of a parsing batch builder
Building(p) ==
  \/ preps[p].pc \in {"parse", "wb_open", "wb_write", "wb_rename", "fin", "fin_complete"}
  \/ BuiltOk(p)

\* C1 (as claimed): at most one preparation of the import is running at any
\* time, whatever the interleaving of the requests' and the tasks' steps.
C1_SinglePreparation ==
  Cardinality({p \in PrepIds : Running(p)}) <= 1

\* C2 (as claimed): every batch file that exists at its final path holds
\* the whole content of the batch: declaration, root, elements, closing
\* root.
C2_AtomicPublication ==
  \A f \in DOMAIN files : f.t = "batch" => WholeBatch(files[f].data)

\* C3 (as claimed): when the oracle has answered FileWillNeverExist for
\* (kind, n), batch_file(kind, n) does not exist, at the answer and after.
C3_NeverWillBe ==
  \A r \in ReqIds :
    reqs[r].pc = "done" /\ reqs[r].status = "FileWillNeverExist"
      => BatchFile(reqs[r].element_type, reqs[r].batch_number) \notin DOMAIN files

\* C4: on an unchanging filesystem the oracle's outcome is one of four and
\* is decided by the state: read success iff the batch file exists and the
\* read succeeds (the content is the file's), read error iff it exists and
\* the read fails, never-will-be iff it is absent and the marker exists,
\* not-yet iff both are absent.
C4_OracleOutcome ==
  \A r \in ReqIds :
    reqs[r].pc \in {"done", "maybe_start"} =>
      LET f == BatchFile(reqs[r].element_type, reqs[r].batch_number)
          b == f \in DOMAIN files
          c == CompleteFile(reqs[r].element_type) \in DOMAIN files
          st == reqs[r].status
      IN /\ st \in {"FileReadSuccessfully", "FileReadError",
                    "FileWillNeverExist", "FileDoesNotExistYet"}
         /\ (st = "FileReadSuccessfully") <=> (b /\ reqs[r].read = "Ok")
         /\ (st = "FileReadSuccessfully") => reqs[r].content = files[f].data
         /\ (st = "FileReadError") <=> (b /\ reqs[r].read = "Err")
         /\ (st = "FileWillNeverExist") <=> (~b /\ c)
         /\ (st = "FileDoesNotExistYet") <=> (~b /\ ~c)

\* C4 witness: the oracle has answered one request with a batch's content
\* and another with never-will-be.
C4_Witness ==
  \E r1, r2 \in ReqIds :
    /\ reqs[r1].pc = "done" /\ reqs[r1].status = "FileReadSuccessfully"
    /\ reqs[r1].content # <<>>
    /\ reqs[r2].pc = "done" /\ reqs[r2].status = "FileWillNeverExist"

\* C5 (as claimed): while complete_file(k) exists, the existing batch
\* indices of k are exactly 0 .. count(k)-1, count(k) read from the marker.
C5_Contiguous ==
  \A k \in KindSet :
    CompleteFile(k) \in DOMAIN files
      => BatchIndices(k) = 0..(CountOf(files[CompleteFile(k)].data) - 1)

\* C6 (as claimed): once complete_file(k) has existed, no step creates a
\* batch file of kind k.
C6_NoBatchAfterComplete ==
  [][\A f \in DOMAIN files' :
       f.t = "batch" /\ f.k \in completed => f \in DOMAIN files]_vars

\* C7 (as claimed): no step deletes a batch file or a completion file.
C7_NeverDeleted ==
  [][\A f \in DOMAIN files :
       f.t \in {"batch", "complete"} => f \in DOMAIN files']_vars

\* C7 (amended): a batch file or completion file is deleted only by the
\* reset (remove_dir_all of batches/) of a batch builder that found a
\* completion marker missing; no other step deletes one.
C7_DeletedOnlyByReset ==
  [][\A f \in DOMAIN files :
       f.t \in {"batch", "complete"} /\ f \notin DOMAIN files'
         => \E p \in PrepIds : /\ preps[p].pc = "bb_rm"
                               /\ preps[p].missing \in KindSet
                               /\ preps[p].rm_dir = f.k]_vars

\* C7 witness: a completion marker that existed has been deleted.
C7_Witness ==
  \E k \in completed : CompleteFile(k) \notin DOMAIN files

\* C8: every batch file holds between 1 and B elements, and exactly B when
\* a batch of the same kind with a higher number exists; B is 500 for a
\* full import and 1000 for a delta import.
C8_BatchSizes ==
  \A f \in DOMAIN files :
    f.t = "batch" =>
      LET c == Len(files[f].data) - 3
          B == ClaimedBatchSize(scenario)
      IN /\ WholeBatch(files[f].data)
         /\ c >= 1 /\ c <= B
         /\ (\E g \in DOMAIN files : g.t = "batch" /\ g.k = f.k /\ g.n > f.n) => c = B

\* C8 witness: a run has succeeded that wrote two node batches, a full one
\* and a short last one, and one way batch of exactly B.
C8_Witness ==
  \E p \in PrepIds :
    /\ BuiltOk(p)
    /\ preps[p].batch_counts["node"] = 2
    /\ Len(files[BatchFile("node", 0)].data) - 3 = ClaimedBatchSize(scenario)
    /\ Len(files[BatchFile("node", 1)].data) - 3 < ClaimedBatchSize(scenario)
    /\ preps[p].batch_counts["way"] = 1
    /\ Len(files[BatchFile("way", 0)].data) - 3 = ClaimedBatchSize(scenario)

\* C9: within one run of the batch builder, at every step after the reset
\* the existing batch indices of each kind are exactly 0 .. batch_counts-1,
\* and a step that publishes batch n of a kind finds batches 0 .. n-1 of
\* that kind in place and batch n not yet.
C9_IncreasingOrder ==
  /\ [](\A p \in PrepIds : Building(p) =>
          \A k \in KindSet : BatchIndices(k) = 0..(preps[p].batch_counts[k] - 1))
  /\ [][\A p \in PrepIds :
          preps[p].pc = "wb_rename" /\ preps'[p].pc \in {"parse", "fin_complete"} =>
            LET k == preps[p].wb_kind
                n == preps[p].batch_counts[k]
            IN /\ BatchFile(k, n) \notin DOMAIN files
               /\ BatchFile(k, n) \in DOMAIN files'
               /\ \A m \in 0..(n - 1) : BatchFile(k, m) \in DOMAIN files]_vars

\* C9 witness: the third node batch has just been published and counted.
C9_Witness ==
  \E p \in PrepIds :
    /\ preps[p].pc \in {"parse", "fin_complete"}
    /\ preps[p].batch_counts["node"] = 3
    /\ BatchIndices("node") = {0, 1, 2}

RECURSIVE BatchesFrom(_, _)
\* the elements of batches n, n+1, ... of kind k, in index order
BatchesFrom(k, n) ==
  IF BatchFile(k, n) \notin DOMAIN files THEN <<>>
  ELSE ElementsOf(files[BatchFile(k, n)].data) \o BatchesFrom(k, n + 1)

ProducedCount(k) ==
  BatchesFor(Len(Source(scenario, k)), ElementsPerBatch(TypeOf(scenario)))

\* the call has been answered and was made for the served import after a
\* preparation had returned Ok
AnsweredAfterSuccess ==
  call.pc = "done" /\ call.since_ok /\ InServedDir(call.import_type)

Outcome(c) ==
  IF c.exists = "yes"
  THEN (IF c.read = "Ok" THEN "FileReadSuccessfully" ELSE "FileReadError")
  ELSE IF c.complete = "yes" THEN "FileWillNeverExist" ELSE "FileDoesNotExistYet"

\* C13: an answered call that passed validation carries the response of its
\* oracle outcome: BatchContent(c) for ReadOk(c), Error(m) for ReadErr(m),
\* BatchesComplete("") for NeverWillBe, BatchesPending("") for NotYet; the
\* lock check of maybe_start is made exactly on NotYet, so a call answered
\* otherwise has spawned nothing.
C13_ResponseOfOutcome ==
  (call.pc = "done" /\ ArgError(call.import_type) = "") =>
    /\ CASE Outcome(call) = "FileReadSuccessfully" ->
              /\ call.response.tag = "BatchContent"
              /\ call.response.body = call.content
         [] Outcome(call) = "FileReadError" ->
              /\ call.read = "Err"
              /\ call.response.tag = "Error"
              /\ call.response.body = "Failed to read batch file"
         [] Outcome(call) = "FileWillNeverExist" ->
              call.response.tag = "BatchesComplete" /\ call.response.body = ""
         [] OTHER ->
              call.response.tag = "BatchesPending" /\ call.response.body = ""
    /\ call.lock # "none" <=> Outcome(call) = "FileDoesNotExistYet"
    /\ call.spawn => Outcome(call) = "FileDoesNotExistYet" /\ call.lock = "no"

C13_Witness ==
  /\ call.pc = "done" /\ ArgError(call.import_type) = ""
  /\ InServedDir(call.import_type)
  /\ Outcome(call) = "FileDoesNotExistYet"
  /\ call.response.tag = "BatchesPending"
  /\ call.spawn
  /\ \E p \in PrepIds : Running(p)

\* C14 (as claimed): a call whose import_type is not valid per the
\* identifier model (FullDate: six decimal digits; DeltaAbc: three segments
\* of three decimal digits separated by slashes), or is missing, is answered
\* with Error at once: it probes no file and starts no preparation.
C14_OnlyValidAccepted ==
  (call.pc # "idle" /\ ~ValidImportType(call.import_type)) =>
    /\ call.pc = "done"
    /\ call.response.tag = "Error"
    /\ call.exists = "none" /\ call.complete = "none" /\ call.lock = "none"
    /\ ~call.spawn

\* task record t is at a fetch, decompress, convert or batch-builder step
AtWork(t) == t.pc \notin {"idle", "mkdir", "lock", "unlock", "done"}

\* C15: process_osm_import enters its first fetch, decompress, convert or
\* batch-builder step from the step that wrote the lock file; it leaves the
\* last one, on success and on failure, for the removal of the lock file;
\* and it returns the dispatched import's result, whether the removal
\* removed the lock or failed and left it.
C15_LockBrackets ==
  [][\A p \in PrepIds :
       /\ AtWork(preps'[p]) /\ ~AtWork(preps[p]) =>
            /\ preps[p].pc = "lock"
            /\ LockFile \in DOMAIN files'
       /\ AtWork(preps[p]) /\ ~AtWork(preps'[p]) =>
            /\ preps'[p].pc = "unlock"
            /\ preps'[p].result \in {"Ok", "Err"}
       /\ preps[p].pc = "unlock" /\ preps'[p] # preps[p] =>
            /\ preps'[p].pc = "done"
            /\ preps'[p].result = preps[p].result
            /\ LockFile \notin DOMAIN files' \/ files' = files]_vars

\* a task has returned Ok although the removal of its lock file failed
C15_Witness ==
  \E p \in PrepIds :
    /\ preps[p].pc = "done" /\ preps[p].result = "Ok"
    /\ LockFile \in DOMAIN files
    /\ \A k \in KindSet : CompleteFile(k) \in DOMAIN files

AllMarkers == \A k \in KindSet : CompleteFile(k) \in DOMAIN files

C18_UrlFromSlashForm ==
  \A p \in PrepIds :
    (TypeOf(scenario) = "delta" /\ preps[p].url # "") =>
      /\ preps[p].url = "https://download.geofabrik.de/asia/bangladesh-updates/"
                          \o Concat(DeltaArg) \o ".osc.gz"
      /\ FilenameBase(scenario) = Concat(Replace(DeltaArg, "/", "_")) \o ".osc"

\* C19 (as claimed): over any sequence of attempts, a fetch that returns
\* success leaves the destination holding the complete remote payload; a
\* fetch that finds the destination makes no request and leaves it as it
\* is; a fetch refused at the status check creates no destination.
C19_FetchComplete ==
  [][\A p \in PrepIds :
       /\ (/\ preps[p].pc \in {"dl_exists", "dl_chunk"}
           /\ preps'[p].pc = AfterDownload) => ArchiveComplete'
       /\ (/\ preps[p].pc = "dl_exists" /\ preps'[p] # preps[p]
           /\ ArchiveFile \in DOMAIN files) =>
            preps'[p].pc = AfterDownload /\ preps'[p].url = preps[p].url /\ files' = files
       /\ (preps[p].pc = "dl_get" /\ preps'[p].pc = "unlock") =>
            files' = files /\ preps'[p].result = "Err"]_vars

FetchStagePcs ==
  {"dl_exists", "dl_get", "dl_create", "dl_chunk",
   "cv_exists", "cv_meta", "cv_run", "cv_rename", "cv_cleanup",
   "gz_exists", "gz_read", "gz_open", "gz_write"}

\* the batch files, their temporaries and the completion files of a file map
PublishedFiles(fmap) ==
  [f \in {g \in DOMAIN fmap : g.t \in {"batch", "batch.temp", "complete"}} |-> fmap[f]]

RECURSIVE Unescape(_)
\* the logical value a conformant XML parser reads from the runs of a
\* value in a document: an entity reference, whether it stands as the run
\* "&" with the run of its name or as the one run an escape produced, is
\* the character it names
Unescape(runs) ==
  LET char(name) == CASE name = "amp;" -> "&" [] name = "lt;" -> "<"
                      [] name = "gt;" -> ">" [] name = "quot;" -> "\""
  IN IF runs = <<>> THEN <<>>
     ELSE IF Head(runs) = "&" /\ Len(runs) >= 2
               /\ runs[2] \in {"amp;", "lt;", "gt;", "quot;"}
     THEN <<char(runs[2])>> \o Unescape(Tail(Tail(runs)))
     ELSE IF Head(runs) \in {"&amp;", "&lt;", "&gt;", "&quot;"}
     THEN <<char(CHOOSE n \in {"amp;", "lt;", "gt;", "quot;"} : "&" \o n = Head(runs))>>
            \o Unescape(Tail(runs))
     ELSE <<Head(runs)>> \o Unescape(Tail(runs))

\* C22 (as claimed): every batch file has the root tag of the source's
\* root, osm or osmChange, and the keys of the source root's attributes
\* with generator; each attribute other than generator holds the source's
\* value, and generator holds the producer token, "; " and the source's
\* generator value, or nothing after "; " when the source has none.
C22_RootFidelity ==
  \A f \in DOMAIN files :
    f.t = "batch" =>
      LET src == EventsOf(scenario)[2]
          line == files[f].data[2]
          generator == IF "generator" \in AttrKeys(src.attrs)
                       THEN Unescape(AttrValue(src.attrs, "generator")) ELSE <<>>
      IN /\ line.tag = src.name /\ src.name \in RootTags
         /\ DOMAIN line.attributes = AttrKeys(src.attrs) \cup {"generator"}
         /\ \A key \in AttrKeys(src.attrs) \ {"generator"} :
              line.attributes[key] =
                Concat(EscapeAttr(Unescape(AttrValue(src.attrs, key))))
         /\ line.attributes["generator"] =
              Concat(EscapeAttr(<<"Chaldal osm-import-rust", "; ">> \o generator))

\* C23 (as claimed): the attribute values and the text the loop has just
\* appended to a fragment, and the root's attribute values that write_batch
\* emits, read back from their escaped form to the logical values read
\* from the source.
C23_RoundTrip ==
  \A p \in PrepIds :
    LET t == preps[p]
        events == EventsOf(scenario)
        same(emitted, source) == Concat(Unescape(emitted)) = Concat(Unescape(source))
    IN (t.pc = "parse" /\ t.pos > 1) =>
         LET e == events[t.pos - 1] IN
         /\ (e.type \in {"Start", "Empty"} /\ (e.name \in KindSet \/ t.in_element)) =>
              \A j \in 1..Len(e.attrs) : same(EscapeAttr(e.attrs[j][2]), e.attrs[j][2])
         /\ (e.type = "Text" /\ t.in_element) => same(EscapeText(e.text), e.text)
         /\ \A key \in DOMAIN t.root_info.attributes \ {"generator"} :
              same(EscapeAttr(t.root_info.attributes[key]),
                   AttrValue(events[2].attrs, key))

\* C24 (as claimed): for a call that names the served import, the lock,
\* batch and completion paths the handler probes are the paths of
\* ImportOptions, rooted at data/<type>/<scope>, which are the paths that
\* process_osm_import locks and that write_batch and the finalization
\* write.
C24_SamePaths ==
  (call.pc # "idle" /\ ArgError(call.import_type) = ""
     /\ InServedDir(call.import_type)) =>
    LET k == call.element_type
        n == call.batch_number
    IN /\ get_batch_file(scenario, k, n) = batch_path(scenario, k, n)
       /\ get_batches_complete_file(scenario, k) = completion_file(scenario, k)
       /\ import_lock_file(call.import_type) = get_lock_file(scenario)
       /\ batch_file(call.import_type, k, n) = batch_path(scenario, k, n)
       /\ batches_complete_file(call.import_type, k) = completion_file(scenario, k)

\* C25: a step that creates the completion file of kind k is a step of a
\* task in the finalization, after the loop left at Eof on a source without
\* a parse error, and at that step every batch of k the task counted is at
\* its final path, no temporary of k is left, and the elements that
\* remained in k's buffer are those of the last batch file; while a task
\* reads or parses the source no step creates a completion file.
C25_MarkerAfterLastBatch ==
  [][\A k \in KindSet :
       (CompleteFile(k) \in DOMAIN files' /\ CompleteFile(k) \notin DOMAIN files) =>
         \E p \in PrepIds :
           LET t == preps[p] IN
           /\ t.pc = "fin_complete" /\ Kinds[t.chk] = k /\ preps'[p] # t
           /\ t.pos = 0 /\ t.root_info.ok
           /\ \A i \in DOMAIN EventsOf(scenario) : EventsOf(scenario)[i].type # "Err"
           /\ \A q \in PrepIds : preps[q].pc \notin {"bb_read", "parse"}
           /\ BatchIndices(k) = 0..(t.batch_counts[k] - 1)
           /\ \A f \in DOMAIN files : ~(f.t = "batch.temp" /\ f.k = k)
           /\ t.current_batches[k] # <<>> =>
                ElementsOf(files[BatchFile(k, t.batch_counts[k] - 1)].data)
                  = [j \in 1..Len(t.current_batches[k]) |->
                       t.current_batches[k][j] \o "\n"]]_vars

\* the completion file of node has been written after two batches filled in
\* the loop and a last, short one, the one of way after no batch
C25_Witness ==
  \E p \in PrepIds :
    /\ preps[p].pc = "fin" /\ Kinds[preps[p].chk] = "relation"
    /\ CompleteFile("node") \in DOMAIN files /\ CompleteFile("way") \in DOMAIN files
    /\ preps[p].batch_counts["node"] >= 2
    /\ preps[p].current_batches["node"] # <<>>

\* C26: a batch builder that found a completion file missing reaches the
\* read of the source only with batches/ and the three kind directories in
\* place and with no batch file, temporary or completion file in them; a
\* step that creates such a file is a step of the task past that point; and
\* when the run has succeeded the batch files of each kind are those the
\* run numbered, each kind has the completion file with the run's count,
\* and no temporary is left.
C26_ResetBeforeWrite ==
  /\ [](\A p \in PrepIds :
          preps[p].pc = "bb_read" =>
            /\ DOMAIN PublishedFiles(files) = {}
            /\ {"batches"} \cup KindSet \subseteq dirs)
  /\ [][DOMAIN PublishedFiles(files') \ DOMAIN PublishedFiles(files) # {} =>
          \E p \in PrepIds :
            /\ preps[p].pc \in {"wb_open", "wb_rename", "fin_complete"}
            /\ preps[p].root_info.ok /\ preps'[p] # preps[p]]_vars
  /\ [](\A p \in PrepIds :
          (BuiltOk(p) /\ preps[p].pc = "unlock") =>
            \A k \in KindSet :
              /\ BatchIndices(k) = 0..(preps[p].batch_counts[k] - 1)
              /\ CompleteFile(k) \in DOMAIN files
              /\ files[CompleteFile(k)].data =
                   CompletionMessage(preps[p].batch_counts[k], FilenameBase(scenario))
              /\ \A f \in DOMAIN files : f.t # "batch.temp")

\* the reset at work on what an earlier partial run left: node's directory
\* is gone with its files, a batch of another kind is still there
C26_Witness ==
  \E p \in PrepIds :
    /\ preps[p].pc = "bb_rm" /\ preps[p].missing # ""
    /\ "node" \notin dirs
    /\ "node" \in completed
    /\ \E f \in DOMAIN files : f.t = "batch"

\* document sc has no osm or osmChange start tag before its first parse
\* error, if any; document sc has a parse error
RootMissing(sc) ==
  \A i \in DOMAIN EventsOf(sc) :
    \/ ~(EventsOf(sc)[i].type = "Start" /\ EventsOf(sc)[i].name \in RootTags)
    \/ \E j \in 1..(i - 1) : EventsOf(sc)[j].type = "Err"
ParseError(sc) == \E i \in DOMAIN EventsOf(sc) : EventsOf(sc)[i].type = "Err"

\* C27: on a source without an osm or osmChange start tag the read step,
\* and on a source with a parse error the turn of the loop that meets it,
\* ends the batch builder with an error; on such a source the task never
\* enters the finalization, never returns success, and no completion file
\* of any kind exists in any state of the run, so that no probe of a
\* completion file can find one.
C27_NoMarkerOnParseFailure ==
  /\ [][\A p \in PrepIds :
          LET t == preps[p]
              events == EventsOf(scenario)
          IN /\ (t.pc = "bb_read" /\ RootMissing(scenario) /\ preps'[p] # t) =>
                  (preps'[p].pc = "unlock" /\ preps'[p].result = "Err")
             /\ (t.pc = "parse" /\ t.pos <= Len(events) /\ preps'[p] # t
                   /\ events[t.pos].type = "Err") =>
                  (preps'[p].pc = "unlock" /\ preps'[p].result = "Err")]_vars
  /\ []((RootMissing(scenario) \/ ParseError(scenario)) =>
          /\ \A k \in KindSet : CompleteFile(k) \notin DOMAIN files
          /\ completed = {}
          /\ \A p \in PrepIds :
               /\ preps[p].pc \notin {"fin", "fin_complete"}
               /\ preps[p].result # "Ok")

\* the loop of a delta met the parse error after two elements, past the
\* reset: the builder has failed and the kind directories are empty
C27_Witness ==
  \E p \in PrepIds :
    /\ scenario = 13
    /\ preps[p].pc = "unlock" /\ preps[p].result = "Err"
    /\ KindSet \subseteq dirs
    /\ XmlFile \in DOMAIN files

\* the documents whose create, modify and delete tags stand between the
\* top-level elements, and whose elements hold no entity reference and no
\* node, way or relation tag of their own (the cases of C23 and C30)
WrapperScenarios == {3, 6, 8, 10, 11, 13}

\* C28: while the loop runs on such a document, every fragment in the
\* pending buffers is the text of its top-level element in the source: in a
\* delta enclosed by the opening and the closing tag of the create, modify
\* or delete wrapper the element lies in, and bare when it lies in none,
\* as after a wrapper's end tag; in a full import always bare, with create
\* and delete tags kept as children where they stand inside an element and
\* dropped where they stand around one.
C28_Wrappers ==
  \A p \in PrepIds :
    LET t == preps[p] IN
    (t.pc = "parse" /\ scenario \in WrapperScenarios) =>
      \A k \in KindSet :
        \A j \in 1..Len(t.current_batches[k]) :
          LET i == t.batch_counts[k] * ElementsPerBatch(TypeOf(scenario)) + j
          IN /\ i <= Len(Source(scenario, k))
             /\ t.current_batches[k][j] = Source(scenario, k)[i]

\* the loop is past a create wrapper with a node and a way in it and past
\* the relation that follows the wrapper's end tag
C28_Witness ==
  \E p \in PrepIds :
    /\ scenario = 11 /\ preps[p].pc = "parse"
    /\ preps[p].delta_container = ""
    /\ preps[p].current_batches["node"] = <<"<create>\n<node id=\"2\"/>\n</create>">>
    /\ Len(preps[p].current_batches["way"]) = 1
    /\ preps[p].current_batches["relation"] = <<"<relation id=\"5\"/>">>

\* the event the loop of task t is at is a self-closing node, way or
\* relation tag
AtEmptyKind(t) ==
  /\ t.pos \in 1..Len(EventsOf(scenario))
  /\ EventsOf(scenario)[t.pos].type = "Empty"
  /\ EventsOf(scenario)[t.pos].name \in KindSet

\* C29: a self-closing node, way or relation tag appends exactly one
\* fragment to the pending buffer of its kind and to no other, and leaves
\* in_element and element_depth as they were (Idle stays Idle): when the
\* buffer has not reached the batch size the loop goes on to the next event;
\* when it has, the batch is written, and when write_batch returns the
\* batch is counted, the buffer is empty and in_element and element_depth
\* are still those of before the tag.
C29_EmptyKind ==
  [][\A p \in PrepIds :
       LET t == preps[p]
           u == preps'[p]
           k == EventsOf(scenario)[t.pos].name
           B == ElementsPerBatch(TypeOf(scenario))
       IN
       /\ (t.pc = "parse" /\ AtEmptyKind(t) /\ u # t) =>
            /\ u.in_element = t.in_element
            /\ u.element_depth = t.element_depth
            /\ (~t.in_element => ~u.in_element /\ u.element_depth = 0)
            /\ Len(u.current_batches[k]) = Len(t.current_batches[k]) + 1
            /\ SubSeq(u.current_batches[k], 1, Len(t.current_batches[k]))
                 = t.current_batches[k]
            /\ \A j \in KindSet \ {k} : u.current_batches[j] = t.current_batches[j]
            /\ u.total_elements_processed = t.total_elements_processed + 1
            /\ u.batch_counts = t.batch_counts
            /\ IF Len(u.current_batches[k]) >= B
               THEN u.pc = "wb_open" /\ u.wb_kind = k /\ u.pos = t.pos
               ELSE u.pc = "parse" /\ u.pos = t.pos + 1
       /\ (t.pc \in {"wb_open", "wb_write", "wb_rename"} /\ t.pushed = "empty"
             /\ u # t /\ u.result # "Err") =>
            /\ AtEmptyKind(t)
            /\ t.wb_kind = k
            /\ u.in_element = t.in_element
            /\ u.element_depth = t.element_depth
            /\ \A j \in KindSet \ {k} : u.current_batches[j] = t.current_batches[j]
            /\ IF t.pc = "wb_rename"
               THEN /\ u.pc = "parse" /\ u.pos = t.pos + 1
                    /\ u.current_batches[k] = <<>>
                    /\ u.batch_counts[k] = t.batch_counts[k] + 1
               ELSE /\ u.pos = t.pos
                    /\ u.current_batches = t.current_batches
                    /\ u.batch_counts = t.batch_counts
    ]_vars
\* the loop has taken a self-closing tag outside any element, written the
\* batch it filled and gone on, still outside any element; a fragment of
\* the next batch is pending
C29_Witness ==
  \E p \in PrepIds :
    LET t == preps[p] IN
    /\ t.pc = "parse" /\ t.pos > 1
    /\ EventsOf(scenario)[t.pos - 1].type = "Empty"
    /\ EventsOf(scenario)[t.pos - 1].name = "node"
    /\ t.batch_counts["node"] = 1
    /\ Len(t.current_batches["node"]) = 1
    /\ ~t.in_element /\ t.element_depth = 0
    /\ BatchFile("node", 0) \in DOMAIN files
\* the text the loop appends for a tag met inside an element
TagText(e) ==
  CASE e.type = "Start" -> "<" \o e.name \o AttrText(e.attrs) \o ">"
    [] e.type = "Empty" -> "<" \o e.name \o AttrText(e.attrs) \o "/>"
    [] e.type = "End"   -> "</" \o e.name \o ">"

\* C30: a node, way or relation start, end or self-closing tag met while a
\* top-level element is being collected does not change element_type, does
\* not discard or restart current_element (the tag is appended to it) and
\* pushes no fragment; only the end tag of the current kind at depth 1
\* pushes the element, to the buffer of that kind.
C30_NestedKindTags ==
  [][\A p \in PrepIds :
       LET t == preps[p]
           u == preps'[p]
           e == EventsOf(scenario)[t.pos]
       IN
       (/\ t.pc = "parse" /\ t.pos \in 1..Len(EventsOf(scenario))
        /\ t.in_element
        /\ e.type \in {"Start", "End", "Empty"} /\ e.name \in KindSet
        /\ u # t) =>
         IF e.type = "End" /\ e.name = t.element_type /\ t.element_depth = 1
         THEN /\ Len(u.current_batches[e.name]) = Len(t.current_batches[e.name]) + 1
              /\ \A j \in KindSet \ {e.name} :
                   u.current_batches[j] = t.current_batches[j]
         ELSE /\ u.element_type = t.element_type
              /\ u.in_element
              /\ u.current_element = t.current_element \o TagText(e)
              /\ u.current_batches = t.current_batches
              /\ u.pc = "parse"
    ]_vars

\* the elements of kind k that task record t has pushed, by its counters:
\* the batches written and the pending buffer
Accounted(t, k) ==
  ElementsPerBatch(TypeOf(scenario)) * t.batch_counts[k] + Len(t.current_batches[k])
\* task record t is in the loop: between two events, or writing the batch
\* that a push filled
InLoop(t) ==
  t.pc = "parse" \/ (t.pc \in {"wb_open", "wb_write", "wb_rename"} /\ t.pushed # "none")

\* C33: between two events of the loop every pending buffer holds fewer
\* than B fragments, and B * batch_counts[k] + len(buffer[k]) is the number
\* of fragments pushed to kind k so far: the sum over the kinds is the
\* loop's own count of pushes, and a step of the loop (an event, or a step
\* of the write_batch it calls, unless that fails) that pushes raises the
\* number of the kind pushed to, element_type, by one and leaves the others.
C33_BufferAccounting ==
  /\ [](\A p \in PrepIds :
          preps[p].pc = "parse" =>
            /\ \A k \in KindSet :
                 Len(preps[p].current_batches[k]) < ElementsPerBatch(TypeOf(scenario))
            /\ Accounted(preps[p], "node") + Accounted(preps[p], "way")
                 + Accounted(preps[p], "relation")
                 = preps[p].total_elements_processed)
  /\ [][\A p \in PrepIds :
          (InLoop(preps[p]) /\ preps'[p].result # "Err") =>
            /\ preps'[p].total_elements_processed - preps[p].total_elements_processed
                 \in {0, 1}
            /\ \A k \in KindSet :
                 Accounted(preps'[p], k) - Accounted(preps[p], k) =
                   IF k = preps'[p].element_type
                   THEN preps'[p].total_elements_processed
                          - preps[p].total_elements_processed
                   ELSE 0]_vars
\* the loop has written a batch of 500 nodes and gone on: one batch is
\* counted, the next fragment is pending, 501 elements are pushed
C33_Witness ==
  \E p \in PrepIds :
    /\ scenario = 3 /\ preps[p].pc = "parse"
    /\ preps[p].batch_counts["node"] = 1
    /\ Len(preps[p].current_batches["node"]) = 1
    /\ preps[p].total_elements_processed = FullBatchSize + 1

\* C34: in_element is true exactly when element_depth >= 1, and
\* element_depth is never negative, after every event of the loop, whatever
\* the events are: well-nested documents, end tags without a start tag,
\* kind tags inside an element, change wrapper tags inside an element.
C34_DepthTracksElement ==
  \A p \in PrepIds :
    /\ preps[p].in_element <=> preps[p].element_depth >= 1
    /\ preps[p].element_depth >= 0
\* the loop has passed an end tag that nothing opened, inside a node whose
\* start tag was the event before: it is still inside the element, depth 1
C34_Witness ==
  \E p \in PrepIds :
    LET t == preps[p] IN
    /\ scenario \in EventScenarios
    /\ t.pc = "parse" /\ t.pos > 3
    /\ EventsOf(scenario)[t.pos - 1] = EndEv("tag")
    /\ EventsOf(scenario)[t.pos - 2].type = "Start"
    /\ EventsOf(scenario)[t.pos - 2].name = "node"
    /\ t.in_element /\ t.element_depth = 1

\* C31: every spawned preparation terminates, and the lock file it created
\* is removed by the time it has: a running task comes to its end with the
\* lock file gone, whether or not any call of the client goes on.
C31_TerminatesAndUnlocks ==
  \A p \in PrepIds :
    Running(p) ~> (preps[p].pc = "done" /\ LockFile \notin DOMAIN files)

\* C32: once a call has returned the content of batch (k, n), no later call
\* for (k, n) is answered BatchesPending or BatchesComplete, and a later
\* call that reads the batch returns the same content, whatever the
\* preparations in between did.  (A later call whose read of the existing
\* file fails returns an error; that is no regression of the batch.)
C32_AvailabilityMonotone ==
  \A r1, r2 \in ReqIds :
    (/\ r1 < r2
     /\ reqs[r1].pc = "done" /\ reqs[r1].status = "FileReadSuccessfully"
     /\ reqs[r2].element_type = reqs[r1].element_type
     /\ reqs[r2].batch_number = reqs[r1].batch_number) =>
      /\ reqs[r2].status \notin {"FileDoesNotExistYet", "FileWillNeverExist"}
      /\ reqs[r2].status = "FileReadSuccessfully" =>
           reqs[r2].content = reqs[r1].content

TypeOK ==
  /\ scenario \in DOMAIN Scenarios
  /\ dirs \subseteq {"import_dir", "batches"} \cup KindSet
  /\ issued \in 0..MaxRequests
  /\ spawned \in 0..MaxSpawns
  /\ completed \subseteq KindSet
====
